---- MODULE Spec2Model ----
(***************************************************************************)
(* A model of the partial evaluator of src/src/eval.rs: the worklist       *)
(* driver Evaluator::evaluate, the per-block abstract interpretation, the  *)
(* context transitions on edges and the operator transfer functions.       *)
(*                                                                         *)
(* Machine words are scaled down: a byte has ByteBits bits, an i32 four    *)
(* bytes and an i64 eight, and every arithmetic operation wraps at its     *)
(* word width exactly as the Rust code does at 32 and 64 bits.             *)
(***************************************************************************)
EXTENDS Integers, Sequences, FiniteSets, TLC

VARIABLES
    generic,          \* Evaluator.generic: the original function body
    directive,        \* Directive.const_params: one abstract value per formal
    overflow_checks,  \* build profile: TRUE when integer overflow panics
    pc,               \* "evaluate" (in the worklist loop), "done", "panic"
    contexts,         \* state.contexts: arena of (parent, element)
    ssa,              \* state.state[ctx].ssa.values, keyed <<ctx, value>>
    block_entry,      \* state.state[ctx].block_entry, keyed <<ctx, block>>
    block_map,        \* Evaluator.block_map, keyed <<ctx, block>>
    block_deps,       \* Evaluator.block_deps, keyed <<ctx, block>>
    value_map,        \* Evaluator.value_map, keyed <<ctx, value>>
    queue,            \* Evaluator.queue: <<orig_block, ctx, new_block>> items
    queue_set,        \* Evaluator.queue_set: <<orig_block, ctx>> pairs
    func,             \* Evaluator.func: the new body [blocks, values]
    last_eval,        \* history: what the latest worklist step did
    driver            \* partially_evaluate: module, directives, mem_updates, image

vars == <<generic, directive, overflow_checks, pc, contexts, ssa, block_entry,
          block_map, block_deps, value_map, queue, queue_set, func, last_eval,
          driver>>

(***************************************************************************)
(* Bounds of the model.                                                    *)
(***************************************************************************)
ByteBits == 1
MaxContexts == 5
MaxExec == 12

(***************************************************************************)
(* Options, finite maps.                                                   *)
(***************************************************************************)
None == <<>>
Some(x) == <<x>>
IsSome(o) == o # <<>>
Unwrap(o) == o[1]

Put(m, k, v) == (k :> v) @@ m
Has(m, k) == k \in DOMAIN m
EmptyMap == <<>>

Range(seq) == {seq[i] : i \in DOMAIN seq}

(***************************************************************************)
(* Words.  WasmVal::I32(k) and WasmVal::I64(k) hold unsigned bit patterns. *)
(***************************************************************************)
Width(ty) == IF ty \in {"I32", "F32"} THEN 4 * ByteBits ELSE 8 * ByteBits
Modulus(ty) == 2 ^ Width(ty)
MaxU(ty) == Modulus(ty) - 1
MinS(ty) == 2 ^ (Width(ty) - 1)

\* `k as i32` / `k as i64`: the signed reading of a bit pattern.
AsSigned(w, k) == IF k >= 2 ^ (w - 1) THEN k - 2 ^ w ELSE k
\* `n as u32` / `n as u64` of a signed number, and `x as u8`-style truncation.
AsUnsigned(w, n) == n % (2 ^ w)
\* `x as iN as iM as uM`: sign extension of the low `from` bits to `to` bits.
SignExtend(from, to, k) == AsUnsigned(to, AsSigned(from, k % (2 ^ from)))

Abs(n) == IF n < 0 THEN -n ELSE n
\* Rust's integer division truncates toward zero.
TruncDiv(a, b) == IF (a < 0) = (b < 0) THEN Abs(a) \div Abs(b) ELSE -(Abs(a) \div Abs(b))
TruncRem(a, b) == a - b * TruncDiv(a, b)

RECURSIVE wrapping_mul(_, _, _)
\* wrapping_mul, computed by shift-and-add so that no intermediate exceeds 2^(w+2).
wrapping_mul(w, a, b) ==
    IF b = 0 THEN 0 ELSE (((b % 2) * a) + 2 * wrapping_mul(w, a, b \div 2)) % (2 ^ w)

RECURSIVE BitOp(_, _, _, _)
BitOp(f, a, b, w) ==
    IF w = 0 THEN 0
    ELSE (CASE f = "And" -> (a % 2) * (b % 2)
            [] f = "Or"  -> IF (a % 2) + (b % 2) > 0 THEN 1 ELSE 0
            [] f = "Xor" -> ((a % 2) + (b % 2)) % 2)
         + 2 * BitOp(f, a \div 2, b \div 2, w - 1)

\* u32::wrapping_shl(rhs): shifts by rhs modulo the width.
wrapping_shl(w, k, amt) == ((k % (2 ^ (w - (amt % w)))) * (2 ^ (amt % w)))
wrapping_shr(w, k, amt) == k \div (2 ^ (amt % w))
\* (k as iN).wrapping_shr(rhs) as uN: arithmetic shift.
wrapping_shr_signed(w, k, amt) ==
    AsUnsigned(w, AsSigned(w, k) \div (2 ^ (amt % w)))   \* floor division

RECURSIVE leading_zeros(_, _)
leading_zeros(w, k) == IF w = 0 \/ k >= 2 ^ (w - 1) THEN 0 ELSE 1 + leading_zeros(w - 1, k)
RECURSIVE trailing_zeros(_, _)
trailing_zeros(w, k) == IF w = 0 THEN 0 ELSE IF k % 2 = 1 THEN 0 ELSE 1 + trailing_zeros(w - 1, k \div 2)
RECURSIVE count_ones(_, _)
count_ones(w, k) == IF w = 0 THEN 0 ELSE (k % 2) + count_ones(w - 1, k \div 2)

(***************************************************************************)
(* AbstractValue and ValueTags (crate::value).                             *)
(***************************************************************************)
const_memory == {"const_memory"}
DefaultTags == {}

Top == [kind |-> "Top", ty |-> "-", bits |-> 0, tags |-> {}]
Runtime(t) == [kind |-> "Runtime", ty |-> "-", bits |-> 0, tags |-> t]
Concrete(ty, k, t) == [kind |-> "Concrete", ty |-> ty, bits |-> k, tags |-> t]

tags_meet(a, b) == a \cap b

meet(a, b) ==
    IF a.kind = "Top" THEN b
    ELSE IF b.kind = "Top" THEN a
    ELSE IF a.kind = "Concrete" /\ b.kind = "Concrete" /\ a.ty = b.ty /\ a.bits = b.bits
         THEN Concrete(a.ty, a.bits, tags_meet(a.tags, b.tags))
         ELSE Runtime(tags_meet(a.tags, b.tags))

with_tags(a, t) == IF a.kind = "Top" THEN a ELSE [a EXCEPT !.tags = @ \cup t]

is_truthy(a) == a.bits # 0
is_const_truthy(a) == IF a.kind = "Concrete" THEN Some(is_truthy(a)) ELSE None
is_const_u32(a) == IF a.kind = "Concrete" /\ a.ty = "I32" THEN Some(a.bits) ELSE None

\* The lattice order Top > Concrete(k) > Runtime, tags ordered by inclusion.
Below(a, b) ==
    \/ b.kind = "Top"
    \/ a.kind = "Runtime" /\ b.kind \in {"Runtime", "Concrete"} /\ a.tags \subseteq b.tags
    \/ a.kind = "Concrete" /\ b.kind = "Concrete" /\ a.ty = b.ty /\ a.bits = b.bits
       /\ a.tags \subseteq b.tags

(***************************************************************************)
(* The IR (waffle): values, blocks, terminators.  Value and block ids are  *)
(* indices into the body's `values` and `blocks`.                          *)
(***************************************************************************)
Entry == 1

Op(ty, op, imm) == [ty |-> ty, op |-> op, imm |-> imm]
Operator(o, args, tys) == [kind |-> "Operator", op |-> o, args |-> args, tys |-> tys]
Alias(v) == [kind |-> "Alias", val |-> v]
PickOutput(v, i, ty) == [kind |-> "PickOutput", val |-> v, idx |-> i, ty |-> ty]
BlockParam(ty) == [kind |-> "BlockParam", ty |-> ty]

BlockTarget(b, args) == [block |-> b, args |-> args]
Br(t) == [kind |-> "Br", target |-> t]
CondBr(c, t, f) == [kind |-> "CondBr", cond |-> c, if_true |-> t, if_false |-> f]
Select(v, ts, d) == [kind |-> "Select", value |-> v, targets |-> ts, default |-> d]
Return(vs) == [kind |-> "Return", values |-> vs]
Unreachable == [kind |-> "Unreachable"]
TermNone == [kind |-> "None"]

BlockDef(params, insts, term) == [params |-> params, insts |-> insts, terminator |-> term]
Body(values, blocks) == [values |-> values, blocks |-> blocks]

Call(f) == Op("-", "Call", f)

\* crate::intrinsics::Intrinsics: the function indices of the three markers.
intrinsics == [assume_const_memory |-> Some(1), loop_pc32_update |-> Some(2),
               loop_header |-> Some(3)]
Const(ty, k) == Operator(Op(ty, "Const", k), <<>>, <<ty>>)

\* FunctionBody::value_blocks: the block that holds a value as parameter or instruction.
value_blocks(body, v) ==
    CHOOSE b \in DOMAIN body.blocks :
        v \in Range(body.blocks[b].params) \cup Range(body.blocks[b].insts)

RECURSIVE resolve_alias(_, _)
resolve_alias(body, v) ==
    IF body.values[v].kind = "Alias" THEN resolve_alias(body, body.values[v].val) ELSE v

\* Successors of a block in the original body.
Targets(term) ==
    CASE term.kind = "Br" -> <<term.target>>
      [] term.kind = "CondBr" -> <<term.if_true, term.if_false>>
      [] term.kind = "Select" -> term.targets \o <<term.default>>
      [] OTHER -> <<>>
Succs(body, b) == {t.block : t \in Range(Targets(body.blocks[b].terminator))}

RECURSIVE ReachAvoiding(_, _, _, _)
ReachAvoiding(body, avoid, seen, frontier) ==
    IF frontier = {} THEN seen
    ELSE LET next == (UNION {Succs(body, b) : b \in frontier}) \ (seen \cup {avoid})
         IN ReachAvoiding(body, avoid, seen \cup next, next)

\* CFGInfo::dominates(a, b): every path from the entry to b passes through a.
dominates(body, a, b) ==
    \/ a = b
    \/ a # Entry /\ b \notin ReachAvoiding(body, a, {Entry}, {Entry})
    \/ a = Entry

(***************************************************************************)
(* The evaluator state threaded through one worklist step.  `pushed` holds *)
(* what the step appends to the queue: one batch per push_back site, the   *)
(* items of one batch being appended in the iteration order of a HashSet.  *)
(***************************************************************************)
Root == 1
RootParent == 0

ProgPointState(globals, staged_pc) == [globals |-> globals, staged_pc |-> staged_pc]
StagedNone == [kind |-> "None", pc |-> None]
StagedSome(p) == [kind |-> "Some", pc |-> p]
StagedConflict == [kind |-> "Conflict", pc |-> None]
PointState(c, flow) == [context |-> c, flow |-> flow]
ContextElem(p, header) == [pc |-> p, header |-> header]

Panic(s, why) == IF s.panic = "" THEN [s EXCEPT !.panic = why] ELSE s

\* Contexts::parent, Contexts::leaf_element, Contexts::create (interning).
parent(s, c) == s.contexts[c].parent
leaf_element(s, c) == s.contexts[c].elem
create(s, par, elem) ==
    LET node == [parent |-> par, elem |-> elem] IN
    IF \E i \in DOMAIN s.contexts : s.contexts[i] = node
    THEN [s |-> s, context |-> CHOOSE i \in DOMAIN s.contexts : s.contexts[i] = node]
    ELSE [s |-> [s EXCEPT !.contexts = Append(@, node)], context |-> Len(s.contexts) + 1]

\* ProgPointState::meet_with: the met state (the caller compares it for `changed`).
staged_meet(a, b) ==
    IF a.kind = "None" THEN b
    ELSE IF b.kind = "None" THEN a
    ELSE IF a = b THEN a ELSE StagedConflict
meet_with(old, new) ==
    LET keys == DOMAIN old.globals \cap DOMAIN new.globals IN
    ProgPointState([g \in keys |-> meet(old.globals[g], new.globals[g])],
                   staged_meet(old.staged_pc, new.staged_pc))

RECURSIVE lookup_context(_, _, _)
\* The loop of use_value: the nearest context, from `context` upward, that holds
\* orig_val; RootParent when the walk would leave the root.
lookup_context(s, context, orig_val) ==
    IF Has(s.ssa, <<context, orig_val>>) THEN context
    ELSE IF context = Root THEN RootParent
    ELSE lookup_context(s, parent(s, context), orig_val)

\* block_deps.entry(key).or_insert_with(HashSet::new).insert(consumer)
add_dep(deps, key, consumer) ==
    Put(deps, key, (IF Has(deps, key) THEN deps[key] ELSE {}) \cup {consumer})

\* The body of use_value once the walk has stopped at `found`.
use_value_at(s, found, context, orig_block, orig_val) ==
    IF found = RootParent
    THEN [s |-> Panic(s, "use_value: walked above the root"), val |-> 0,
          abs |-> Runtime(DefaultTags)]
    ELSE [s |-> [s EXCEPT !.block_deps =
                    add_dep(@, <<found, value_blocks(generic, orig_val)>>,
                            <<context, orig_block>>)],
          val |-> s.ssa[<<found, orig_val>>].val,
          abs |-> s.ssa[<<found, orig_val>>].abs]

use_value(s, context, orig_block, orig_val) ==
    use_value_at(s, lookup_context(s, context, orig_val), context, orig_block, orig_val)

\* The push onto the worklist of every consumer in `deps` that has a specialized
\* block and is not queued (enqueue_block_if_existing, once per element).
enqueue_block_unchecked(s, deps) ==
    IF \A d \in deps : ~Has(s.block_map, d)
    THEN s
    ELSE [s EXCEPT
            !.queue_set = @ \cup {<<d[2], d[1]>> : d \in {e \in deps : Has(s.block_map, e)}},
            !.pushed = Append(@, {<<d[2], d[1], s.block_map[d]>> :
                                    d \in {e \in deps : Has(s.block_map, e)}})]
enqueue_block_if_existing(s, deps) ==
    IF \A d \in deps : ~Has(s.block_map, d) \/ <<d[2], d[1]>> \in s.queue_set
    THEN s
    ELSE [s EXCEPT
            !.queue_set = @ \cup {<<d[2], d[1]>> : d \in {e \in deps : Has(s.block_map, e)}},
            !.pushed = Append(@, {<<d[2], d[1], s.block_map[d]>> :
                                    d \in {e \in deps : /\ Has(s.block_map, e)
                                                        /\ <<e[2], e[1]>> \notin s.queue_set}})]

\* What def_value leaves in the SSA map for an occupied entry; def_value_overwrite
\* is the variant that overwrites instead of meeting.
def_value_overwrite(old, val, abs) == [val |-> old.val, abs |-> abs]
def_value_occupied(old, val, abs) == [val |-> old.val, abs |-> meet(old.abs, abs)]

\* The `match ... entry(orig_val)` of def_value: the SSA map afterwards.  `defs`
\* is history: the abstract value stored before (if any) and after each call.
def_value_entry(s, key, stored) ==
    [s EXCEPT !.ssa = Put(@, key, stored),
              !.defs = Append(@, [context |-> key[1], value |-> key[2],
                                  before |-> IF Has(s.ssa, key) THEN Some(s.ssa[key].abs)
                                             ELSE None,
                                  after |-> stored.abs])]

\* The `if changed` block of def_value.
def_value_changed(s, changed, block, context) ==
    IF changed /\ Has(s.block_deps, <<context, block>>)
    THEN enqueue_block_if_existing(s, s.block_deps[<<context, block>>])
    ELSE s

def_value(s, block, context, orig_val, val, abs) ==
    IF ~Has(s.ssa, <<context, orig_val>>)
    THEN def_value_changed(def_value_entry(s, <<context, orig_val>>,
                                           [val |-> val, abs |-> abs]),
                           TRUE, block, context)
    ELSE def_value_changed(
            def_value_entry(s, <<context, orig_val>>,
                            def_value_occupied(s.ssa[<<context, orig_val>>], val, abs)),
            def_value_occupied(s.ssa[<<context, orig_val>>], val, abs).abs
                # s.ssa[<<context, orig_val>>].abs,
            block, context)

(***************************************************************************)
(* The memory image (crate::image): a read-only little-endian byte map.    *)
(***************************************************************************)
image ==
    [a \in 2..11 |-> IF a \in {2, 3, 6, 9, 10} THEN 2 ^ ByteBits - 1 ELSE a % (2 ^ ByteBits)]

RECURSIVE little_endian(_, _)
little_endian(addr, size) ==
    IF size = 0 THEN 0 ELSE image[addr] + (2 ^ ByteBits) * little_endian(addr + 1, size - 1)

\* Image::read_size: None when any byte lies outside the mapped region.
read_size(addr, size) ==
    IF \A i \in 0..(size - 1) : (addr + i) \in DOMAIN image
    THEN Some(little_endian(addr, size)) ELSE None

(***************************************************************************)
(* Transfer functions.  Each returns the abstract result; those that touch *)
(* the flow state return it too.                                           *)
(***************************************************************************)
Loads == {"Load", "Load8U", "Load8S", "Load16U", "Load16S", "Load32U", "Load32S"}

\* `size` of the load arms, in bytes.
load_size(op) ==
    CASE op.op = "Load" -> IF op.ty = "I32" THEN 4 ELSE 8
      [] op.op \in {"Load8U", "Load8S"} -> 1
      [] op.op \in {"Load16U", "Load16S"} -> 2
      [] op.op \in {"Load32U", "Load32S"} -> 4

\* `conv` of the load arms.
load_conv(op, x) ==
    LET w == Width(op.ty) IN
    CASE op.op = "Load" -> AsUnsigned(w, x)
      [] op.op = "Load8U" -> AsUnsigned(ByteBits, x)
      [] op.op = "Load8S" -> SignExtend(ByteBits, w, x)
      [] op.op = "Load16U" -> AsUnsigned(2 * ByteBits, x)
      [] op.op = "Load16S" -> SignExtend(2 * ByteBits, w, x)
      [] op.op = "Load32U" -> AsUnsigned(4 * ByteBits, x)
      [] op.op = "Load32S" -> SignExtend(4 * ByteBits, w, x)

\* The guard of the two load arms of abstract_eval_unary; load_folds_untagged is
\* the variant without the `if t.contains(const_memory)`.
load_folds_untagged(op, x) ==
    /\ op.op \in Loads
    /\ op.ty \in {"I32", "I64"}
    /\ ~(op.ty = "I32" /\ op.op \in {"Load32U", "Load32S"})
    /\ x.kind = "Concrete" /\ x.ty = "I32"
load_folds(op, x) ==
    /\ op.op \in Loads
    /\ op.ty \in {"I32", "I64"}
    /\ ~(op.ty = "I32" /\ op.op \in {"Load32U", "Load32S"})
    /\ x.kind = "Concrete" /\ x.ty = "I32"
    /\ const_memory \subseteq x.tags

\* `k + memory.offset as u32`: a u32 addition, which panics on overflow when the
\* build checks overflow and wraps otherwise.
load_address(k, offset) == (k + AsUnsigned(Width("I32"), offset)) % Modulus("I32")
load_overflows(k, offset) == k + AsUnsigned(Width("I32"), offset) >= Modulus("I32")

\* `.map(|data| Concrete(conv(data), t)).unwrap_or(Runtime(default))`
load_result(op, x, data) ==
    IF IsSome(data) THEN Concrete(op.ty, load_conv(op, Unwrap(data)), x.tags)
    ELSE Runtime(DefaultTags)

load_eval(op, x) ==
    load_result(op, x, read_size(load_address(x.bits, op.imm), load_size(op)))

\* The integer arms of abstract_eval_unary other than loads: the folded WasmVal
\* as <<type, bits>>, or None when no arm matches.
unary_fold(op, x) ==
    LET k == x.bits
        w == Width(x.ty)
        same == x.ty = op.ty /\ op.ty \in {"I32", "I64"}
    IN CASE op.op = "Eqz" /\ same -> Some(<<op.ty, IF k = 0 THEN 1 ELSE 0>>)
         [] op.op = "Extend8S" /\ same -> Some(<<op.ty, SignExtend(ByteBits, w, k)>>)
         [] op.op = "Extend16S" /\ same -> Some(<<op.ty, SignExtend(2 * ByteBits, w, k)>>)
         [] op.op = "Extend32S" /\ same /\ op.ty = "I64" ->
                Some(<<op.ty, SignExtend(4 * ByteBits, w, k)>>)
         [] op.op = "Clz" /\ same -> Some(<<op.ty, leading_zeros(w, k)>>)
         [] op.op = "Ctz" /\ same -> Some(<<op.ty, trailing_zeros(w, k)>>)
         [] op.op = "Popcnt" /\ same -> Some(<<op.ty, count_ones(w, k)>>)
         [] op.op = "WrapI64" /\ op.ty = "I32" /\ x.ty = "I64" ->
                Some(<<"I32", AsUnsigned(Width("I32"), k)>>)
         [] op.op = "ExtendI32S" /\ op.ty = "I64" /\ x.ty = "I32" ->
                Some(<<"I64", SignExtend(Width("I32"), Width("I64"), k)>>)
         [] op.op = "ExtendI32U" /\ op.ty = "I64" /\ x.ty = "I32" -> Some(<<"I64", k>>)
         [] OTHER -> None

\* abstract_eval_unary below the GlobalSet arm; `folded` is unary_fold(op, x).
unary_result(op, x, folded) ==
    IF x.kind = "Concrete" /\ IsSome(folded)
    THEN [abs |-> Concrete(Unwrap(folded)[1], Unwrap(folded)[2], x.tags), panic |-> ""]
    ELSE IF load_folds(op, x)
    THEN IF overflow_checks /\ load_overflows(x.bits, op.imm)
         THEN [abs |-> Runtime(DefaultTags), panic |-> "attempt to add with overflow"]
         ELSE [abs |-> load_eval(op, x), panic |-> ""]
    ELSE [abs |-> Runtime(DefaultTags), panic |-> ""]

abstract_eval_unary(op, x, state) ==
    IF op.op = "GlobalSet"
    THEN [abs |-> Runtime(DefaultTags), replace |-> None,
          state |-> [state EXCEPT !.flow.globals = Put(@, op.imm, x)], panic |-> ""]
    ELSE [replace |-> None, state |-> state] @@ unary_result(op, x, unary_fold(op, x))

Comparisons == {"Eq", "Ne", "LtS", "LtU", "GtS", "GtU", "LeS", "LeU", "GeS", "GeU"}
DivRems == {"DivU", "DivS", "RemU", "RemS"}
Arithmetic == {"Add", "Sub", "Mul", "And", "Or", "Xor"}
Shifts == {"Shl", "ShrU", "ShrS", "Rotl", "Rotr"}
BinaryOps == Comparisons \cup DivRems \cup Arithmetic \cup Shifts

Bool(b) == IF b THEN 1 ELSE 0

\* The comparison arms of abstract_eval_binary.
compare_fold(op, w, k1, k2) ==
    LET s1 == AsSigned(w, k1)
        s2 == AsSigned(w, k2)
    IN CASE op = "Eq" -> Bool(k1 = k2)
         [] op = "Ne" -> Bool(k1 # k2)
         [] op = "LtS" -> Bool(s1 < s2)
         [] op = "LtU" -> Bool(k1 < k2)
         [] op = "GtS" -> Bool(s1 > s2)
         [] op = "GtU" -> Bool(k1 > k2)
         [] op = "LeS" -> Bool(s1 <= s2)
         [] op = "LeU" -> Bool(k1 <= k2)
         [] op = "GeS" -> Bool(s1 >= s2)
         [] op = "GeU" -> Bool(k1 >= k2)

\* The `if` guards of the division and remainder arms; divrem_guard_nonzero is
\* the variant that only tests the divisor.
divrem_guard_nonzero(op, ty, k1, k2) == k2 # 0
divrem_guard(op, ty, k1, k2) ==
    IF op \in {"DivU", "RemU"} THEN k2 # 0
    ELSE k2 # 0 /\ (k1 # MinS(ty) \/ k2 # MaxU(ty))

\* The division and remainder arms.
divrem_fold(op, w, k1, k2) ==
    CASE op = "DivU" -> k1 \div k2
      [] op = "DivS" -> AsUnsigned(w, TruncDiv(AsSigned(w, k1), AsSigned(w, k2)))
      [] op = "RemU" -> k1 % k2
      [] op = "RemS" -> AsUnsigned(w, TruncRem(AsSigned(w, k1), AsSigned(w, k2)))

\* The add, sub, mul, and, or, xor arms; arith_fold_unwrapped is the variant
\* whose addition and subtraction do not wrap.
arith_fold_unwrapped(op, w, k1, k2) ==
    CASE op = "Add" -> k1 + k2
      [] op = "Sub" -> IF k1 < k2 THEN k2 - k1 ELSE k1 - k2
      [] op = "Mul" -> wrapping_mul(w, k1, k2)
      [] op \in {"And", "Or", "Xor"} -> BitOp(op, k1, k2, w)
arith_fold(op, w, k1, k2) ==
    CASE op = "Add" -> (k1 + k2) % (2 ^ w)
      [] op = "Sub" -> (k1 - k2) % (2 ^ w)
      [] op = "Mul" -> wrapping_mul(w, k1, k2)
      [] op \in {"And", "Or", "Xor"} -> BitOp(op, k1, k2, w)

\* The shift and rotate arms: the count is masked with 0x1f (0x3f), and the
\* complementary shift of a rotation is `width - amt`.
shift_fold_saturating(op, w, k1, k2) ==
    LET amt == IF k2 >= w THEN w - 1 ELSE k2 IN
    CASE op = "Shl" -> wrapping_shl(w, k1, amt)
      [] op = "ShrU" -> wrapping_shr(w, k1, amt)
      [] op = "ShrS" -> wrapping_shr_signed(w, k1, amt)
      [] op = "Rotl" -> BitOp("Or", wrapping_shl(w, k1, amt), wrapping_shr(w, k1, w - amt), w)
      [] op = "Rotr" -> BitOp("Or", wrapping_shr(w, k1, amt), wrapping_shl(w, k1, w - amt), w)
shift_fold(op, w, k1, k2) ==
    LET amt == k2 % w IN
    CASE op = "Shl" -> wrapping_shl(w, k1, amt)
      [] op = "ShrU" -> wrapping_shr(w, k1, amt)
      [] op = "ShrS" -> wrapping_shr_signed(w, k1, amt)
      [] op = "Rotl" -> BitOp("Or", wrapping_shl(w, k1, amt), wrapping_shr(w, k1, w - amt), w)
      [] op = "Rotr" -> BitOp("Or", wrapping_shr(w, k1, amt), wrapping_shl(w, k1, w - amt), w)

abstract_eval_binary(op, x, y) ==
    IF x.kind = "Concrete" /\ y.kind = "Concrete"
    THEN LET tags == tags_meet(x.tags, y.tags)
             w == Width(op.ty)
             typed == op.ty \in {"I32", "I64"} /\ x.ty = op.ty /\ y.ty = op.ty
         IN CASE typed /\ op.op \in Comparisons ->
                    Concrete(op.ty, compare_fold(op.op, w, x.bits, y.bits), tags)
              [] typed /\ op.op \in DivRems /\ divrem_guard(op.op, op.ty, x.bits, y.bits) ->
                    Concrete(op.ty, divrem_fold(op.op, w, x.bits, y.bits), tags)
              [] typed /\ op.op \in Arithmetic ->
                    Concrete(op.ty, arith_fold(op.op, w, x.bits, y.bits), tags)
              [] typed /\ op.op \in Shifts ->
                    Concrete(op.ty, shift_fold(op.op, w, x.bits, y.bits), tags)
              [] OTHER -> Runtime(DefaultTags)
    ELSE Runtime(DefaultTags)

abstract_eval_ternary(op, x, y, z) ==
    IF op.op \in {"Select", "TypedSelect"} /\ x.kind = "Concrete"
    THEN IF is_truthy(x) THEN y ELSE z
    ELSE Runtime(DefaultTags)

abstract_eval_nullary_top(op, state) ==
    CASE op.op = "GlobalGet" ->
            IF Has(state.flow.globals, op.imm) THEN state.flow.globals[op.imm]
            ELSE Top
      [] op.op = "Const" -> Concrete(op.ty, op.imm, DefaultTags)
      [] OTHER -> Runtime(DefaultTags)

abstract_eval_nullary(op, state) ==
    CASE op.op = "GlobalGet" ->
            IF Has(state.flow.globals, op.imm) THEN state.flow.globals[op.imm]
            ELSE Runtime(DefaultTags)
      [] op.op = "Const" -> Concrete(op.ty, op.imm, DefaultTags)
      [] OTHER -> Runtime(DefaultTags)

\* abstract_eval_intrinsic: None when the operator is no recognised intrinsic call.
abstract_eval_intrinsic(op, abs, values, state) ==
    IF op.op = "Call" /\ Some(op.imm) = intrinsics.assume_const_memory
    THEN Some([abs |-> with_tags(abs[1], const_memory), replace |-> Some(values[1]),
               state |-> state, panic |-> ""])
    ELSE IF op.op = "Call" /\ Some(op.imm) = intrinsics.loop_pc32_update
    THEN Some([abs |-> abs[1], replace |-> Some(values[1]),
               state |-> [state EXCEPT !.flow.staged_pc = StagedSome(is_const_u32(abs[1]))],
               panic |-> ""])
    ELSE None

\* abstract_eval after the intrinsic check: the dispatch on abs.len().
abstract_eval_plain(op, abs, state) ==
    IF Len(abs) = 1 THEN abstract_eval_unary(op, abs[1], state)
    ELSE [abs |-> CASE Len(abs) = 0 -> abstract_eval_nullary(op, state)
                    [] Len(abs) = 2 -> abstract_eval_binary(op, abs[1], abs[2])
                    [] Len(abs) = 3 -> abstract_eval_ternary(op, abs[1], abs[2], abs[3])
                    [] OTHER -> Runtime(DefaultTags),
          replace |-> None, state |-> state, panic |-> ""]

abstract_eval(op, abs, values, state) ==
    IF op.op = "Call" /\ Some(op.imm) \in
            {intrinsics.assume_const_memory, intrinsics.loop_pc32_update}
    THEN Unwrap(abstract_eval_intrinsic(op, abs, values, state))
    ELSE abstract_eval_plain(op, abs, state)

\* const_operator: the constant operator of type ty holding `value`, if any.
const_operator(ty, valty, bits) ==
    IF ty = valty /\ ty \in {"I32", "I64", "F32", "F64"}
    THEN Some(Op(ty, "Const", bits)) ELSE None

(***************************************************************************)
(* Block bodies.                                                           *)
(***************************************************************************)
NoArgs == [vals |-> <<>>, abss |-> <<>>]

RECURSIVE use_values(_, _, _, _, _)
RECURSIVE use_values_push(_, _, _, _, _)
\* The argument loops of evaluate_block_body, evaluate_block_target and the
\* Return arm: use_value on each of `args`, pushing onto the two vectors.
use_values(s, context, orig_block, args, acc) ==
    IF args = <<>> THEN [s |-> s, vals |-> acc.vals, abss |-> acc.abss]
    ELSE use_values_push(use_value(s, context, orig_block, Head(args)),
                         context, orig_block, Tail(args), acc)
use_values_push(u, context, orig_block, rest, acc) ==
    use_values(u.s, context, orig_block, rest,
               [vals |-> Append(acc.vals, u.val), abss |-> Append(acc.abss, u.abs)])

\* The match on (replace_value, result_abs_value): the ValueDef to emit and the
\* abstract value to define.  (_, Top) is the unreachable!() arm.
transcribe(op, tys, arg_values, replace, av) ==
    IF IsSome(replace) THEN [def |-> Alias(Unwrap(replace)), abs |-> av]
    ELSE IF av.kind = "Concrete" /\ Len(tys) = 1 /\ IsSome(const_operator(tys[1], av.ty, av.bits))
    THEN [def |-> Operator(Unwrap(const_operator(tys[1], av.ty, av.bits)), <<>>, tys),
          abs |-> av]
    ELSE [def |-> Operator(op, arg_values, tys), abs |-> Runtime(av.tags)]

\* func.add_value, value_map.insert, func.append_to_block, def_value.
emit_twice(s, orig_block, input_ctx, new_block, inst, result_value, result_abs) ==
    def_value([s EXCEPT !.values = Append(@, result_value),
                        !.value_map = Put(@, <<input_ctx, inst>>, Len(s.values) + 1),
                        !.blocks[new_block].insts =
                            Append(Append(@, Len(s.values) + 1), Len(s.values) + 1)],
              orig_block, input_ctx, inst, Len(s.values) + 1, result_abs)
emit(s, orig_block, input_ctx, new_block, inst, result_value, result_abs) ==
    def_value([s EXCEPT !.values = Append(@, result_value),
                        !.value_map = Put(@, <<input_ctx, inst>>, Len(s.values) + 1),
                        !.blocks[new_block].insts = Append(@, Len(s.values) + 1)],
              orig_block, input_ctx, inst, Len(s.values) + 1, result_abs)

\* History: what the step did with one Operator instruction.
logged(s, inst, context, op, args, result, stored) ==
    [s EXCEPT !.log = Append(@, [inst |-> inst, context |-> context, op |-> op,
                                 args |-> args, result |-> result, stored |-> stored.abs,
                                 def |-> stored.def, value |-> Len(s.values)])]

\* The Operator arm of evaluate_block_body after abstract_eval returned r.
evaluate_operator_result(a, r, context, orig_block, new_block, inst, d, tr) ==
    [s |-> logged(emit(IF r.panic # "" THEN Panic(a.s, r.panic)
                       ELSE IF r.abs.kind = "Top" THEN Panic(a.s, "unreachable: Top result")
                       ELSE a.s,
                       orig_block, context, new_block, inst, tr.def, tr.abs),
                  inst, context, d.op, a.abss, r.abs, tr),
     state |-> r.state]

\* The Operator arm after the arguments were collected into a.
evaluate_operator_args(a, r, state, orig_block, new_block, inst, d) ==
    evaluate_operator_result(a, r, state.context, orig_block, new_block, inst, d,
                             transcribe(d.op, d.tys, a.vals, r.replace, r.abs))

evaluate_operator(a, state, orig_block, new_block, inst, d) ==
    evaluate_operator_args(a, abstract_eval(d.op, a.abss, a.vals, state),
                           state, orig_block, new_block, inst, d)

\* The PickOutput arm.
evaluate_pick(u, state, orig_block, new_block, inst, d) ==
    [s |-> emit(u.s, orig_block, state.context, new_block, inst,
                PickOutput(u.val, d.idx, d.ty), Runtime(DefaultTags)),
     state |-> state]

\* One iteration of the loop of evaluate_block_body.
evaluate_inst(s, state, orig_block, new_block, inst, d) ==
    CASE d.kind = "Alias" -> [s |-> s, state |-> state]
      [] d.kind = "PickOutput" ->
            evaluate_pick(use_value(s, state.context, orig_block, d.val),
                          state, orig_block, new_block, inst, d)
      [] d.kind = "Operator" ->
            evaluate_operator(
                use_values(s, state.context, orig_block,
                           [i \in DOMAIN d.args |-> resolve_alias(generic, d.args[i])], NoArgs),
                state, orig_block, new_block, inst, d)
      [] OTHER -> [s |-> Panic(s, "unreachable: invalid ValueDef"), state |-> state]

RECURSIVE evaluate_insts(_, _, _, _)
RECURSIVE evaluate_insts_next(_, _, _, _)
evaluate_insts(r, orig_block, new_block, insts) ==
    IF insts = <<>> THEN r
    ELSE evaluate_insts_next(
            evaluate_inst(r.s, r.state, orig_block, new_block, Head(insts),
                          generic.values[Head(insts)]),
            orig_block, new_block, Tail(insts))
evaluate_insts_next(r, orig_block, new_block, rest) ==
    evaluate_insts(r, orig_block, new_block, rest)

evaluate_block_body(s, orig_block, state, new_block) ==
    evaluate_insts([s |-> s, state |-> state], orig_block, new_block,
                   generic.blocks[orig_block].insts)

(***************************************************************************)
(* Edges: context transitions and specialized-block creation.              *)
(***************************************************************************)
\* compute_header_blocks: the blocks holding a call to the loop_header intrinsic.
compute_header_blocks(body) ==
    {b \in DOMAIN body.blocks :
        \E i \in DOMAIN body.blocks[b].insts :
            /\ body.values[body.blocks[b].insts[i]].kind = "Operator"
            /\ body.values[body.blocks[b].insts[i]].op.op = "Call"
            /\ Some(body.values[body.blocks[b].insts[i]].op.imm) = intrinsics.loop_header}

\* meet_into_block_entry: the stored entry state afterwards; `changed` is whether
\* it differs from the one stored before.
meet_into_block_entry(s, block, context, flow) ==
    IF Has(s.block_entry, <<context, block>>)
    THEN meet_with(s.block_entry[<<context, block>>], flow)
    ELSE flow

RECURSIVE add_blockparams(_, _, _, _)
\* The parameter loop of create_block.
add_blockparams(s, block, context, params) ==
    IF params = <<>> THEN s
    ELSE add_blockparams(
            [s EXCEPT
                !.values = Append(@, [kind |-> "BlockParam", block |-> block,
                                      idx |-> Len(s.blocks[block].params),
                                      ty |-> generic.values[Head(params)].ty]),
                !.blocks[block].params = Append(@, Len(s.values) + 1),
                !.value_map = Put(@, <<context, Head(params)>>, Len(s.values) + 1)],
            block, context, Tail(params))

\* create_block after func.add_block() returned `block`.
create_block_in_unrecorded(s, block, orig_block, context, flow) ==
    [s |-> [s EXCEPT !.block_map = Put(@, <<context, orig_block>>, block)],
     block |-> block]

create_block_in(s, block, orig_block, context, flow) ==
    [s |-> [s EXCEPT !.block_map = Put(@, <<context, orig_block>>, block),
                     !.block_entry = Put(@, <<context, orig_block>>, flow)],
     block |-> block]

create_block(s, orig_block, context, flow) ==
    create_block_in(
        add_blockparams([s EXCEPT !.blocks = Append(@, BlockDef(<<>>, <<>>, TermNone))],
                        Len(s.blocks) + 1, context, generic.blocks[orig_block].params),
        Len(s.blocks) + 1, orig_block, context, flow)

\* The StagedPC::Some(pc) arm of the pop phase, c being the interned sibling;
\* pop_sibling_stay is the variant that does not adopt the sibling.
pop_sibling_stay(c, state) ==
    [s |-> c.s, target_context |-> state.context,
     updated |-> PointState(state.context, [state.flow EXCEPT !.staged_pc = StagedNone])]
pop_sibling(c, state) ==
    [s |-> c.s, target_context |-> c.context,
     updated |-> PointState(c.context, [state.flow EXCEPT !.staged_pc = StagedNone])]

\* The pop phase of target_block.  `target_context` is the function's local of
\* that name; `updated` is the PointState the loop breaks with.
pop_phase(s, state, target, elem) ==
    IF elem.header = Entry
    THEN [s |-> s, target_context |-> state.context, updated |-> state]
    ELSE IF ~dominates(generic, elem.header, target)
    THEN [s |-> s, target_context |-> parent(s, state.context), updated |-> state]
    ELSE IF elem.header = target /\ state.flow.staged_pc.kind = "Conflict"
    THEN [s |-> s, target_context |-> state.context,
          updated |-> [state EXCEPT !.flow.staged_pc = StagedNone]]
    ELSE IF elem.header = target /\ state.flow.staged_pc.kind = "Some"
    THEN pop_sibling(create(s, parent(s, state.context),
                            ContextElem(state.flow.staged_pc.pc, elem.header)), state)
    ELSE [s |-> s, target_context |-> state.context, updated |-> state]

\* The context the push phase creates.
push_child(c, p) == [s |-> c.s, updated |-> [p.updated EXCEPT !.context = c.context]]

\* The push phase of target_block.
push_phase(p, orig_block, target) ==
    IF target \in compute_header_blocks(generic) /\ ~dominates(generic, target, orig_block)
    THEN push_child(create(p.s, p.updated.context, ContextElem(None, target)), p)
    ELSE [s |-> p.s, updated |-> p.updated]

\* The HashEntry::Vacant arm of target_block, c being what create_block returned.
target_vacant_unqueued(c, target, ctx) ==
    [s |-> c.s, block |-> c.block, context |-> ctx, created |-> TRUE]
target_vacant(c, target, ctx) ==
    [s |-> [c.s EXCEPT !.queue_set = @ \cup {<<target, ctx>>},
                       !.pushed = Append(@, {<<target, ctx, c.block>>})],
     block |-> c.block, context |-> ctx, created |-> TRUE]

\* The HashEntry::Occupied arm of target_block.
target_occupied(s, target, ctx, entry) ==
    [s |-> IF (~Has(s.block_entry, <<ctx, target>>) \/ entry # s.block_entry[<<ctx, target>>])
              /\ <<target, ctx>> \notin s.queue_set
           THEN [s EXCEPT !.block_entry = Put(@, <<ctx, target>>, entry),
                          !.queue_set = @ \cup {<<target, ctx>>},
                          !.pushed = Append(@, {<<target, ctx, s.block_map[<<ctx, target>>]>>})]
           ELSE [s EXCEPT !.block_entry = Put(@, <<ctx, target>>, entry)],
     block |-> s.block_map[<<ctx, target>>], context |-> ctx, created |-> FALSE]

\* The match on block_map.entry((updated_state.context, target)).
target_entry(u, state, target) ==
    IF ~Has(u.s.block_map, <<u.updated.context, target>>)
    THEN target_vacant(create_block(u.s, target, u.updated.context, state.flow),
                       target, u.updated.context)
    ELSE target_occupied(u.s, target, u.updated.context,
                         meet_into_block_entry(u.s, target, u.updated.context, u.updated.flow))

target_block(s, state, orig_block, target) ==
    target_entry(push_phase(pop_phase(s, state, target, leaf_element(s, state.context)),
                            orig_block, target),
                 state, target)

RECURSIVE def_values(_, _, _, _, _, _)
\* The second loop of evaluate_block_target: zip(params, zip(args, abs_args)).
def_values(s, orig_block, target_ctx, params, vals, abss) ==
    IF params = <<>> \/ vals = <<>> THEN s
    ELSE def_values(def_value(s, orig_block, target_ctx, Head(params), Head(vals), Head(abss)),
                    orig_block, target_ctx, Tail(params), Tail(vals), Tail(abss))

Prefix(seq, n) == SubSeq(seq, 1, IF n < Len(seq) THEN n ELSE Len(seq))

\* History: one evaluated edge.
edge_logged(s, t, a, orig_block, state, target) ==
    [s EXCEPT !.edges = Append(@,
        [from |-> orig_block, from_context |-> state.context, to |-> target.block,
         context |-> t.context, block |-> t.block, created |-> t.created,
         staged_pc |-> state.flow.staged_pc, args |-> a.abss,
         uses |-> Prefix(target.args, Len(a.abss))])]

\* evaluate_block_target after its first loop (the uses) filled a.
evaluate_block_target_defs(t, a, orig_block, state, target) ==
    [s |-> edge_logged(def_values(a.s, orig_block, t.context,
                                  generic.blocks[target.block].params, a.vals, a.abss),
                       t, a, orig_block, state, target),
     target |-> BlockTarget(t.block, a.vals)]

RECURSIVE use_def_values(_, _, _, _, _, _, _)
\* The variant of the two loops that defines each parameter right after reading
\* its argument.
use_def_values(s, context, orig_block, target_ctx, params, args, acc) ==
    IF params = <<>> \/ args = <<>> THEN [s |-> s, vals |-> acc.vals, abss |-> acc.abss]
    ELSE use_def_values(
            def_value(use_value(s, context, orig_block, Head(args)).s,
                      orig_block, target_ctx, Head(params),
                      use_value(s, context, orig_block, Head(args)).val,
                      use_value(s, context, orig_block, Head(args)).abs),
            context, orig_block, target_ctx, Tail(params), Tail(args),
            [vals |-> Append(acc.vals, use_value(s, context, orig_block, Head(args)).val),
             abss |-> Append(acc.abss, use_value(s, context, orig_block, Head(args)).abs)])

evaluate_block_target_sequential(t, orig_block, state, target) ==
    evaluate_block_target_defs(
        t,
        use_def_values(t.s, state.context, orig_block, t.context,
                       generic.blocks[target.block].params, target.args, NoArgs),
        orig_block, state, target)

\* evaluate_block_target after target_block returned t.
evaluate_block_target_uses(t, orig_block, state, target) ==
    evaluate_block_target_defs(
        t,
        use_values(t.s, state.context, orig_block,
                   Prefix(target.args, Len(generic.blocks[target.block].params)), NoArgs),
        orig_block, state, target)

evaluate_block_target(s, orig_block, state, target) ==
    evaluate_block_target_uses(target_block(s, state, orig_block, target.block),
                               orig_block, state, target)

RECURSIVE evaluate_block_targets(_, _, _, _)
RECURSIVE evaluate_block_targets_push(_, _, _, _, _)
\* evaluate_block_target on each of `targets`, in order.
evaluate_block_targets(r, orig_block, state, targets) ==
    IF targets = <<>> THEN r
    ELSE evaluate_block_targets_push(
            evaluate_block_target(r.s, orig_block, state, Head(targets)),
            r.targets, orig_block, state, Tail(targets))
evaluate_block_targets_push(e, done, orig_block, state, rest) ==
    evaluate_block_targets([s |-> e.s, targets |-> Append(done, e.target)],
                           orig_block, state, rest)

\* The CondBr arm of evaluate_term: the original targets it evaluates, in order;
\* condbr_targets_both is the variant that never folds.
condbr_targets_both(term, abs_cond) == <<term.if_true, term.if_false>>
condbr_targets(term, abs_cond) ==
    IF is_const_truthy(abs_cond) = Some(TRUE) THEN <<term.if_true>>
    ELSE IF is_const_truthy(abs_cond) = Some(FALSE) THEN <<term.if_false>>
    ELSE <<term.if_true, term.if_false>>

\* The Select arm of evaluate_term: the original targets it evaluates, in order.
select_targets(term, abs_value) ==
    IF IsSome(is_const_u32(abs_value))
    THEN IF Unwrap(is_const_u32(abs_value)) < Len(term.targets)
         THEN <<term.targets[Unwrap(is_const_u32(abs_value)) + 1]>>
         ELSE <<term.default>>
    ELSE term.targets \o <<term.default>>

\* func.set_terminator(new_block, new_term)
set_terminator(s, new_block, new_term) == [s EXCEPT !.blocks[new_block].terminator = new_term]

\* The terminator built from the evaluated targets r of a CondBr or Select whose
\* operand resolved to u.
branch_term(kind, u, r) ==
    IF Len(r.targets) = 1 /\ (kind = "CondBr" \/ IsSome(is_const_u32(u.abs)))
    THEN Br(r.targets[1])
    ELSE IF kind = "CondBr" THEN CondBr(u.val, r.targets[1], r.targets[2])
    ELSE Select(u.val, Prefix(r.targets, Len(r.targets) - 1), r.targets[Len(r.targets)])

\* `term` is history: the abstract value the branch was decided on.
evaluate_branch_set(kind, u, r, new_block) ==
    set_terminator([r.s EXCEPT !.term = [kind |-> kind, abs |-> u.abs]],
                   new_block, branch_term(kind, u, r))

\* The CondBr and Select arms once use_value returned u.
evaluate_branch(kind, u, term, orig_block, state, new_block) ==
    evaluate_branch_set(kind, u,
        evaluate_block_targets([s |-> u.s, targets |-> <<>>], orig_block, state,
                               IF kind = "CondBr" THEN condbr_targets(term, u.abs)
                               ELSE select_targets(term, u.abs)),
        new_block)

evaluate_br(r, new_block) == set_terminator(r.s, new_block, Br(r.target))
evaluate_return(r, new_block) == set_terminator(r.s, new_block, Return(r.vals))

evaluate_term(s, orig_block, state, new_block, term) ==
    CASE term.kind = "CondBr" ->
            evaluate_branch("CondBr", use_value(s, state.context, orig_block, term.cond),
                            term, orig_block, state, new_block)
      [] term.kind = "Select" ->
            evaluate_branch("Select", use_value(s, state.context, orig_block, term.value),
                            term, orig_block, state, new_block)
      [] term.kind = "Br" ->
            evaluate_br(evaluate_block_target(s, orig_block, state, term.target), new_block)
      [] term.kind = "Return" ->
            evaluate_return(use_values(s, state.context, orig_block, term.values, NoArgs),
                            new_block)
      [] OTHER -> set_terminator(s, new_block, term)

\* evaluate_block after evaluate_block_body returned b.
evaluate_block_term(b, orig_block, new_block) ==
    evaluate_term(b.s, orig_block, b.state, new_block, generic.blocks[orig_block].terminator)

\* evaluate_block after the clear of the specialized block's instruction list.
evaluate_block_cleared(s, orig_block, ctx, new_block) ==
    IF ~Has(s.block_entry, <<ctx, orig_block>>)
    THEN Panic(s, "unwrap of a missing block_entry")
    ELSE evaluate_block_term(
            evaluate_block_body(s, orig_block,
                                PointState(ctx, s.block_entry[<<ctx, orig_block>>]), new_block),
            orig_block, new_block)

\* The variant without the clear.
evaluate_block_appending(s, orig_block, ctx, new_block) ==
    evaluate_block_cleared(s, orig_block, ctx, new_block)

evaluate_block(s, orig_block, ctx, new_block) ==
    evaluate_block_cleared([s EXCEPT !.blocks[new_block].insts = <<>>],
                           orig_block, ctx, new_block)

(***************************************************************************)
(* The original bodies and directives the model is run on.                 *)
(***************************************************************************)
ResultTy(ty, op) == IF op \in Comparisons \cup {"Eqz"} THEN "I32" ELSE ty
Ret == BlockDef(<<>>, <<>>, Return(<<>>))

\* fn(x, y) { return x <op> y }
BinProg(ty, op) ==
    Body(<<BlockParam(ty), BlockParam(ty),
           Operator(Op(ty, op, 0), <<1, 2>>, <<ResultTy(ty, op)>>)>>,
         <<BlockDef(<<1, 2>>, <<3>>, Return(<<3>>))>>)

\* fn(a) { return load(a + offset) }
LoadProg(ty, op, offset) ==
    Body(<<BlockParam("I32"), Operator(Op(ty, op, offset), <<1>>, <<ty>>)>>,
         <<BlockDef(<<1>>, <<2>>, Return(<<2>>))>>)

\* fn(a) { return load(assume_const_memory(a)) }
AssumeLoadProg(ty, op) ==
    Body(<<BlockParam("I32"),
           Operator(Call(Unwrap(intrinsics.assume_const_memory)), <<1>>, <<"I32">>),
           Operator(Op(ty, op, 0), <<2>>, <<ty>>)>>,
         <<BlockDef(<<1>>, <<2, 3>>, Return(<<3>>))>>)

\* fn(a, b, c) { return select(a, b, c) }: the operands in the order of the
\* WebAssembly operand stack, the condition c last.
SelectOpProg(op) ==
    Body(<<BlockParam("I32"), BlockParam("I32"), BlockParam("I32"),
           Operator(Op("I32", op, 0), <<1, 2, 3>>, <<"I32">>)>>,
         <<BlockDef(<<1, 2, 3>>, <<4>>, Return(<<4>>))>>)

\* fn(x) { y = x + x; z = y (an alias); return z + x }
AliasProg ==
    Body(<<BlockParam("I32"), Operator(Op("I32", "Add", 0), <<1, 1>>, <<"I32">>),
           Alias(2), Operator(Op("I32", "Add", 0), <<3, 1>>, <<"I32">>)>>,
         <<BlockDef(<<1>>, <<2, 3, 4>>, Return(<<4>>))>>)

\* fn(x) { if x { g = 1 }; return g }: the global is set on one path only.
GlobalProg ==
    Body(<<BlockParam("I32"), Const("I32", 1),
           Operator(Op("-", "GlobalSet", 0), <<2>>, <<>>),
           Operator(Op("-", "GlobalGet", 0), <<>>, <<"I32">>)>>,
         <<BlockDef(<<1>>, <<>>, CondBr(1, BlockTarget(2, <<>>), BlockTarget(3, <<>>))),
           BlockDef(<<>>, <<2, 3>>, Br(BlockTarget(3, <<>>))),
           BlockDef(<<>>, <<4>>, Return(<<4>>))>>)

\* fn(x) { if x { g = 1 } else { nop; nop; nop; g = 2 }; v = g; g = 3; goto m(v);
\*         m(p): r = p + p; g = v; return r }
\* Block 6 passes v on its edge and block 7 reads v, so both read block 5;
\* block 5 leaves the same globals to its successor whatever it was entered with.
OrderProg ==
    Body(<<BlockParam("I32"),
           Const("I32", 1), Operator(Op("-", "GlobalSet", 0), <<2>>, <<>>),
           Const("I32", 2), Operator(Op("-", "GlobalSet", 0), <<4>>, <<>>),
           Operator(Op("-", "GlobalGet", 0), <<>>, <<"I32">>),
           BlockParam("I32"),
           Operator(Op("I32", "Add", 0), <<7, 7>>, <<"I32">>),
           Operator(Op("-", "GlobalSet", 0), <<6>>, <<>>),
           Const("I32", 3), Operator(Op("-", "GlobalSet", 0), <<10>>, <<>>)>>,
         <<BlockDef(<<1>>, <<>>, CondBr(1, BlockTarget(2, <<>>), BlockTarget(3, <<>>))),
           BlockDef(<<>>, <<2, 3>>, Br(BlockTarget(5, <<>>))),
           BlockDef(<<>>, <<>>, Br(BlockTarget(8, <<>>))),
           BlockDef(<<>>, <<4, 5>>, Br(BlockTarget(5, <<>>))),
           BlockDef(<<>>, <<6, 10, 11>>, Br(BlockTarget(6, <<>>))),
           BlockDef(<<>>, <<>>, Br(BlockTarget(7, <<6>>))),
           BlockDef(<<7>>, <<8, 9>>, Return(<<8>>)),
           BlockDef(<<>>, <<>>, Br(BlockTarget(9, <<>>))),
           BlockDef(<<>>, <<>>, Br(BlockTarget(10, <<>>))),
           BlockDef(<<>>, <<>>, Br(BlockTarget(4, <<>>)))>>)

\* fn(x) { z = x (an alias); return z }
AliasReturnProg ==
    Body(<<BlockParam("I32"), Alias(1)>>,
         <<BlockDef(<<1>>, <<2>>, Return(<<2>>))>>)

\* fn(x) { a = 1; b = 1; while x { (a, b) = (2, a) }; return b }
ShiftProg ==
    Body(<<BlockParam("I32"), Const("I32", 1), Const("I32", 2),
           BlockParam("I32"), BlockParam("I32"), BlockParam("I32")>>,
         <<BlockDef(<<1>>, <<2, 3>>, Br(BlockTarget(2, <<2, 2>>))),
           BlockDef(<<4, 5>>, <<>>, CondBr(1, BlockTarget(2, <<3, 4>>), BlockTarget(3, <<5>>))),
           BlockDef(<<6>>, <<>>, Return(<<6>>))>>)

\* fn(x) { a = 1; b = 2; while x { (a, b) = (b, a) }; return b }
SwapProg ==
    Body(<<BlockParam("I32"), Const("I32", 1), Const("I32", 2),
           BlockParam("I32"), BlockParam("I32"), BlockParam("I32")>>,
         <<BlockDef(<<1>>, <<2, 3>>, Br(BlockTarget(2, <<2, 3>>))),
           BlockDef(<<4, 5>>, <<>>, CondBr(1, BlockTarget(2, <<5, 4>>), BlockTarget(3, <<5>>))),
           BlockDef(<<6>>, <<>>, Return(<<6>>))>>)

\* fn(x) { loop_pc32_update(1); goto b2; b2: loop_pc32_update(2); goto b3; b3: return }
StageTwiceProg ==
    Body(<<BlockParam("I32"), Const("I32", 1),
           Operator(Call(Unwrap(intrinsics.loop_pc32_update)), <<2>>, <<"I32">>),
           Const("I32", 2),
           Operator(Call(Unwrap(intrinsics.loop_pc32_update)), <<4>>, <<"I32">>)>>,
         <<BlockDef(<<1>>, <<2, 3>>, Br(BlockTarget(2, <<>>))),
           BlockDef(<<>>, <<4, 5>>, Br(BlockTarget(3, <<>>))),
           Ret>>)

\* fn(x) { if x { while x { loop_header() } }; loop_header(); return }: the edge
\* that leaves the first marked loop enters the second.
TwoLoopsProg ==
    Body(<<BlockParam("I32"), Operator(Call(Unwrap(intrinsics.loop_header)), <<>>, <<>>),
           Operator(Call(Unwrap(intrinsics.loop_header)), <<>>, <<>>)>>,
         <<BlockDef(<<1>>, <<>>, CondBr(1, BlockTarget(2, <<>>), BlockTarget(3, <<>>))),
           BlockDef(<<>>, <<2>>, CondBr(1, BlockTarget(2, <<>>), BlockTarget(3, <<>>))),
           BlockDef(<<>>, <<3>>, Return(<<>>))>>)

\* fn(x) { return eqz x }
EqzProg(ty) ==
    Body(<<BlockParam(ty), Operator(Op(ty, "Eqz", 0), <<1>>, <<ResultTy(ty, "Eqz")>>)>>,
         <<BlockDef(<<1>>, <<2>>, Return(<<2>>))>>)

\* fn(x) { if x == 0 return 1 else return 2 }
CondBrProg ==
    Body(<<BlockParam("I32"), Const("I32", 0),
           Operator(Op("I32", "Eq", 0), <<1, 2>>, <<"I32">>),
           Const("I32", 1), Const("I32", 2)>>,
         <<BlockDef(<<1>>, <<2, 3>>, CondBr(3, BlockTarget(2, <<>>), BlockTarget(3, <<>>))),
           BlockDef(<<>>, <<4>>, Return(<<4>>)),
           BlockDef(<<>>, <<5>>, Return(<<5>>))>>)

\* fn(x) { switch x { 0: return 1; 1: return 2; default: return 3 } }
SelectProg ==
    Body(<<BlockParam("I32"), Const("I32", 1), Const("I32", 2), Const("I32", 3)>>,
         <<BlockDef(<<1>>, <<>>, Select(1, <<BlockTarget(2, <<>>), BlockTarget(3, <<>>)>>,
                                        BlockTarget(4, <<>>))),
           BlockDef(<<>>, <<2>>, Return(<<2>>)),
           BlockDef(<<>>, <<3>>, Return(<<3>>)),
           BlockDef(<<>>, <<4>>, Return(<<4>>))>>)

\* fn(x) { if x { p = 1 } else { nop; p = 0 }; r = p + p; if p return r else return 3 }
\* The merge block 5 takes p as a block parameter on two edges.
MergeProg ==
    Body(<<BlockParam("I32"), Const("I32", 1), Const("I32", 0), BlockParam("I32"),
           Operator(Op("I32", "Add", 0), <<4, 4>>, <<"I32">>), Const("I32", 3)>>,
         <<BlockDef(<<1>>, <<>>, CondBr(1, BlockTarget(2, <<>>), BlockTarget(3, <<>>))),
           BlockDef(<<>>, <<2>>, Br(BlockTarget(5, <<2>>))),
           BlockDef(<<>>, <<>>, Br(BlockTarget(4, <<>>))),
           BlockDef(<<>>, <<3>>, Br(BlockTarget(5, <<3>>))),
           BlockDef(<<4>>, <<5>>, CondBr(4, BlockTarget(6, <<>>), BlockTarget(7, <<>>))),
           BlockDef(<<>>, <<>>, Return(<<5>>)),
           BlockDef(<<>>, <<6>>, Return(<<6>>))>>)

\* fn(x) { if x { p = 1 } else { nop; nop; nop; p = 0 }; r = p + p;
\*         if p return r else return 3 }
\* MergeProg with a longer else-path into the merge block 7.
LateMergeProg ==
    Body(<<BlockParam("I32"), Const("I32", 1), Const("I32", 0), BlockParam("I32"),
           Operator(Op("I32", "Add", 0), <<4, 4>>, <<"I32">>), Const("I32", 3)>>,
         <<BlockDef(<<1>>, <<>>, CondBr(1, BlockTarget(2, <<>>), BlockTarget(3, <<>>))),
           BlockDef(<<>>, <<2>>, Br(BlockTarget(7, <<2>>))),
           BlockDef(<<>>, <<>>, Br(BlockTarget(4, <<>>))),
           BlockDef(<<>>, <<>>, Br(BlockTarget(5, <<>>))),
           BlockDef(<<>>, <<>>, Br(BlockTarget(6, <<>>))),
           BlockDef(<<>>, <<3>>, Br(BlockTarget(7, <<3>>))),
           BlockDef(<<4>>, <<5>>, CondBr(4, BlockTarget(8, <<>>), BlockTarget(9, <<>>))),
           BlockDef(<<>>, <<>>, Return(<<5>>)),
           BlockDef(<<>>, <<6>>, Return(<<6>>))>>)

\* fn(pc) { loop { loop_header(); pc = loop_pc32_update(pc + 1); if pc == 3 break }
\*          return pc }
LoopProg ==
    Body(<<BlockParam("I32"), BlockParam("I32"),
           Operator(Call(Unwrap(intrinsics.loop_header)), <<>>, <<>>),
           Const("I32", 1),
           Operator(Op("I32", "Add", 0), <<2, 4>>, <<"I32">>),
           Operator(Call(Unwrap(intrinsics.loop_pc32_update)), <<5>>, <<"I32">>),
           Const("I32", 3),
           Operator(Op("I32", "Eq", 0), <<5, 7>>, <<"I32">>),
           BlockParam("I32")>>,
         <<BlockDef(<<1>>, <<>>, Br(BlockTarget(2, <<1>>))),
           BlockDef(<<2>>, <<3, 4, 5, 6, 7, 8>>,
                    CondBr(8, BlockTarget(3, <<5>>), BlockTarget(2, <<6>>))),
           BlockDef(<<9>>, <<>>, Return(<<9>>))>>)

\* fn(r) { while r { while r { loop_header() } } }: the inner loop is marked.
NestedProg ==
    Body(<<BlockParam("I32"), Operator(Call(Unwrap(intrinsics.loop_header)), <<>>, <<>>)>>,
         <<BlockDef(<<1>>, <<>>, Br(BlockTarget(2, <<>>))),
           BlockDef(<<>>, <<>>, CondBr(1, BlockTarget(3, <<>>), BlockTarget(4, <<>>))),
           BlockDef(<<>>, <<2>>, CondBr(1, BlockTarget(3, <<>>), BlockTarget(2, <<>>))),
           Ret>>)

\* fn(r) { if r { g = 1 } else { nop; g = 2 }; v = g;
\*         if r { if v {..} else {..} } else { if v {..} else {..} } }
DepProg ==
    Body(<<BlockParam("I32"),
           Const("I32", 1), Operator(Op("-", "GlobalSet", 0), <<2>>, <<>>),
           Const("I32", 2), Operator(Op("-", "GlobalSet", 0), <<4>>, <<>>),
           Operator(Op("-", "GlobalGet", 0), <<>>, <<"I32">>)>>,
         <<BlockDef(<<1>>, <<>>, CondBr(1, BlockTarget(2, <<>>), BlockTarget(3, <<>>))),
           BlockDef(<<>>, <<2, 3>>, Br(BlockTarget(5, <<>>))),
           BlockDef(<<>>, <<>>, Br(BlockTarget(4, <<>>))),
           BlockDef(<<>>, <<4, 5>>, Br(BlockTarget(5, <<>>))),
           BlockDef(<<>>, <<6>>, CondBr(1, BlockTarget(6, <<>>), BlockTarget(7, <<>>))),
           BlockDef(<<>>, <<>>, CondBr(6, BlockTarget(8, <<>>), BlockTarget(9, <<>>))),
           BlockDef(<<>>, <<>>, CondBr(6, BlockTarget(10, <<>>), BlockTarget(11, <<>>))),
           Ret, Ret, Ret, Ret>>)

\* fn(r) { if r { g = 1; q = 1 } else { nop; nop; g = 2; q = 0 };
\*         w = g; if 1 { p = q }; return w }
\* The merge block 6 branches on a constant; its taken target 7 takes q as a
\* parameter and its other target 8 is reached from 7.
RequeueProg ==
    Body(<<BlockParam("I32"),
           Const("I32", 1), Operator(Op("-", "GlobalSet", 0), <<2>>, <<>>),
           Const("I32", 2), Operator(Op("-", "GlobalSet", 0), <<4>>, <<>>),
           Const("I32", 0), BlockParam("I32"),
           Operator(Op("-", "GlobalGet", 0), <<>>, <<"I32">>), Const("I32", 1),
           BlockParam("I32")>>,
         <<BlockDef(<<1>>, <<>>, CondBr(1, BlockTarget(2, <<>>), BlockTarget(3, <<>>))),
           BlockDef(<<>>, <<2, 3>>, Br(BlockTarget(6, <<2>>))),
           BlockDef(<<>>, <<>>, Br(BlockTarget(4, <<>>))),
           BlockDef(<<>>, <<>>, Br(BlockTarget(5, <<>>))),
           BlockDef(<<>>, <<4, 5, 6>>, Br(BlockTarget(6, <<6>>))),
           BlockDef(<<7>>, <<8, 9>>, CondBr(9, BlockTarget(7, <<7>>), BlockTarget(8, <<>>))),
           BlockDef(<<10>>, <<>>, Br(BlockTarget(8, <<>>))),
           BlockDef(<<>>, <<>>, Return(<<8>>))>>)

Samples(ty) == {0, 1, 3, MinS(ty), MaxU(ty)}
ArgVals(ty) ==
    {Runtime(DefaultTags)}
        \cup {Concrete(ty, k, DefaultTags) : k \in Samples(ty)}
        \cup {Concrete(ty, k, const_memory) : k \in {1, 2, 3, 9, MaxU(ty)}}
SmallArgs == {Runtime(DefaultTags), Concrete("I32", 0, DefaultTags),
              Concrete("I32", 1, DefaultTags), Concrete("I32", 2, DefaultTags)}

I32Loads == {"Load", "Load8U", "Load8S", "Load16U", "Load16S"}
Offsets == {0, 3}

\* The (body, const_params) pairs of the model's directives.
Directives ==
    UNION {
      UNION {{<<BinProg(ty, op), <<x, y>>>> :
                 op \in BinaryOps, x \in ArgVals(ty), y \in ArgVals(ty)} :
             ty \in {"I32", "I64"}},
      {<<LoadProg(ty, op, o), <<a>>>> :
          ty \in {"I32", "I64"}, op \in I32Loads, o \in Offsets, a \in ArgVals("I32")},
      {<<LoadProg("I64", op, o), <<a>>>> :
          op \in {"Load32U", "Load32S"}, o \in Offsets, a \in ArgVals("I32")},
      {<<AssumeLoadProg("I32", "Load"), <<a>>>> : a \in ArgVals("I32")},
      {<<SelectOpProg(op), <<a, b, c>>>> :
          op \in {"Select", "TypedSelect"}, a \in SmallArgs, b \in SmallArgs, c \in SmallArgs},
      {<<AliasProg, <<a>>>> : a \in SmallArgs},
      {<<AliasReturnProg, <<a>>>> : a \in SmallArgs},
      UNION {{<<EqzProg(ty), <<a>>>> :
                 a \in {Runtime(DefaultTags)} \cup
                         {Concrete(ty, k, DefaultTags) : k \in {0, 1, MaxU(ty)}}} :
             ty \in {"I32", "I64"}},
      {<<TwoLoopsProg, <<a>>>> : a \in SmallArgs},
      {<<StageTwiceProg, <<a>>>> : a \in SmallArgs},
      {<<ShiftProg, <<a>>>> : a \in SmallArgs},
      {<<SwapProg, <<a>>>> : a \in SmallArgs},
      {<<OrderProg, <<a>>>> : a \in SmallArgs},
      {<<GlobalProg, <<a>>>> : a \in SmallArgs},
      {<<CondBrProg, <<a>>>> : a \in ArgVals("I32")},
      {<<SelectProg, <<a>>>> : a \in ArgVals("I32")},
      {<<MergeProg, <<a>>>> : a \in SmallArgs},
      {<<LateMergeProg, <<a>>>> : a \in SmallArgs},
      {<<LoopProg, <<a>>>> : a \in SmallArgs},
      {<<NestedProg, <<a>>>> : a \in SmallArgs},
      {<<DepProg, <<a>>>> : a \in SmallArgs},
      {<<RequeueProg, <<a>>>> : a \in SmallArgs}
    }

HasLoad(body) ==
    \E v \in DOMAIN body.values :
        body.values[v].kind = "Operator" /\ body.values[v].op.op \in Loads

(***************************************************************************)
(* The state machine.                                                      *)
(***************************************************************************)
\* FunctionState::init_args: the new entry block takes the formals of the
\* signature; each formal of the original entry block is bound, in the root
\* context, to the new formal and the directive's abstract value.
init_args(body, args) ==
    LET params == body.blocks[Entry].params
        n == Len(params)
    IN [values |-> [i \in 1..n |-> [kind |-> "BlockParam", block |-> Entry, idx |-> i - 1,
                                    ty |-> body.values[params[i]].ty]],
        blocks |-> <<BlockDef([i \in 1..n |-> i], <<>>, TermNone)>>,
        ssa |-> [k \in {<<Root, params[i]>> : i \in 1..n} |->
                    LET i == CHOOSE j \in 1..n : params[j] = k[2]
                    IN [val |-> i, abs |-> args[i]]],
        block_entry |-> (<<Root, Entry>> :> ProgPointState(EmptyMap, StagedNone)),
        contexts |-> <<[parent |-> RootParent, elem |-> ContextElem(None, Entry)]>>]

NoBranch == [kind |-> "-", abs |-> Top]
NoEval == [orig_block |-> 0, context |-> 0, new_block |-> 0, log |-> <<>>, edges |-> <<>>,
           defs |-> <<>>, pushed |-> <<>>, term |-> NoBranch, nblocks |-> 0, panic |-> ""]

\* Module::func(id).body() is None for an import.
FuncImport == [body |-> None]
FuncBody(body) == [body |-> Some(body)]

Directive(f, const_params, func_index_out_addr) ==
    [func |-> f, const_params |-> const_params,
     func_index_out_addr |-> func_index_out_addr]

ImportError == "Attempt to specialize an import"
NoMainHeap == "no main heap"
OutOfBounds == "write out of bounds"

\* partially_evaluate at its entry: nothing recorded in mem_updates, the image
\* untouched.  `next` is the position of the for loop over the directives,
\* `pending` what the for loop over mem_updates has yet to yield; `added`,
\* `evaluators` and `writes` are history: the index add_func gave for each
\* directive, how many Evaluators were built, the write_u32 calls that succeeded.
Driving(module, directives, main_heap) ==
    [module |-> module, directives |-> directives, main_heap |-> main_heap,
     next |-> 1, mem_updates |-> EmptyMap, pending |-> {}, heap |-> image,
     added |-> <<>>, evaluators |-> 0, writes |-> <<>>, result |-> None]

\* The Evaluator is built for the directive at hand.
evaluator_built(d) == [d EXCEPT !.evaluators = @ + 1]

\* partially_evaluate_func up to the call of evaluate(), for a module of one
\* function and its one directive.
Init ==
    \E d \in Directives :
        LET a == init_args(d[1], d[2]) IN
        /\ driver = evaluator_built(Driving(<<FuncBody(d[1])>>,
                                            <<Directive(1, d[2], 2)>>, Some(0)))
        /\ generic = d[1]
        /\ directive = d[2]
        /\ overflow_checks \in (IF HasLoad(d[1]) THEN BOOLEAN ELSE {FALSE})
        /\ pc = "evaluate"
        /\ contexts = a.contexts
        /\ ssa = a.ssa
        /\ block_entry = a.block_entry
        /\ block_map = EmptyMap
        /\ block_deps = EmptyMap
        /\ value_map = EmptyMap
        /\ queue = <<<<Entry, Root, Entry>>>>
        /\ queue_set = {<<Entry, Root>>}
        /\ func = [blocks |-> a.blocks, values |-> a.values]
        /\ last_eval = NoEval

RECURSIVE Orders(_)
\* Every order in which a HashSet may yield its elements.
Orders(set) ==
    IF set = {} THEN {<<>>}
    ELSE UNION {{<<x>> \o rest : rest \in Orders(set \ {x})} : x \in set}

RECURSIVE Linearizations(_)
Linearizations(batches) ==
    IF batches = <<>> THEN {<<>>}
    ELSE {h \o rest : h \in Orders(Head(batches)), rest \in Linearizations(Tail(batches))}

\* The state of the evaluator as one record, as evaluate_block sees it after the
\* pop of `item`.
Threaded(item) ==
    [contexts |-> contexts, ssa |-> ssa, block_entry |-> block_entry,
     block_map |-> block_map, block_deps |-> block_deps, value_map |-> value_map,
     queue_set |-> queue_set \ {<<item[1], item[2]>>}, pushed |-> <<>>,
     blocks |-> func.blocks, values |-> func.values,
     panic |-> "", log |-> <<>>, edges |-> <<>>, defs |-> <<>>, term |-> NoBranch]

\* The effect of one iteration of the loop of Evaluator::evaluate, s being the
\* evaluator after evaluate_block(item).
Evaluated(item, s) ==
    /\ Len(s.contexts) <= MaxContexts
    /\ last_eval' = [orig_block |-> item[1], context |-> item[2], new_block |-> item[3],
                     log |-> s.log, edges |-> s.edges, defs |-> s.defs,
                     pushed |-> s.pushed, term |-> s.term, nblocks |-> Len(func.blocks),
                     panic |-> s.panic]
    /\ IF s.panic # ""
       THEN /\ pc' = "panic"
            /\ UNCHANGED <<contexts, ssa, block_entry, block_map, block_deps,
                           value_map, queue, queue_set, func>>
       ELSE /\ pc' = pc
            /\ contexts' = s.contexts
            /\ ssa' = s.ssa
            /\ block_entry' = s.block_entry
            /\ block_map' = s.block_map
            /\ block_deps' = s.block_deps
            /\ value_map' = s.value_map
            /\ queue_set' = s.queue_set
            /\ func' = [blocks |-> s.blocks, values |-> s.values]
            /\ \E q \in Linearizations(s.pushed) : queue' = Tail(queue) \o q

\* One iteration of the loop of Evaluator::evaluate.
Step ==
    /\ pc = "evaluate"
    /\ queue # <<>>
    /\ \E s \in {evaluate_block(Threaded(Head(queue)), Head(queue)[1], Head(queue)[2],
                                 Head(queue)[3])} :
            Evaluated(Head(queue), s)
    /\ UNCHANGED <<generic, directive, overflow_checks, driver>>

\* module.add_func(sig, evaluator.func), whose index partially_evaluate records
\* in mem_updates under the directive's address; an earlier entry under the same
\* address is replaced.  Function ids are positions in the module.
func_added_written(d, body) ==
    [d EXCEPT !.module = Append(@, FuncBody(body)),
              !.added = Append(@, Len(d.module) + 1),
              !.mem_updates = Put(@, d.directives[d.next].func_index_out_addr,
                                  Len(d.module) + 1),
              !.writes = Append(@, <<d.directives[d.next].func_index_out_addr,
                                     Len(d.module) + 1>>),
              !.next = @ + 1]
func_added(d, body) ==
    [d EXCEPT !.module = Append(@, FuncBody(body)),
              !.added = Append(@, Len(d.module) + 1),
              !.mem_updates = Put(@, d.directives[d.next].func_index_out_addr,
                                  Len(d.module) + 1),
              !.next = @ + 1]

\* The worklist is empty: evaluate() returns, the body is added to the module
\* and partially_evaluate_func returns its index.
Finish ==
    /\ pc = "evaluate"
    /\ queue = <<>>
    /\ pc' = "done"
    /\ driver' = func_added(driver, func)
    /\ UNCHANGED <<generic, directive, overflow_checks, contexts, ssa, block_entry,
                   block_map, block_deps, value_map, queue, queue_set, func, last_eval>>

Next == Step \/ Finish

Spec == Init /\ [][Next]_vars

(***************************************************************************)
(* The driver partially_evaluate over a list of directives.                *)
(***************************************************************************)
MaxDirectives == 2

\* fn(x) { return x + x } and the two-block fn(x) { if x == 0 ... } as the
\* defined functions of the module, next to one import.
DriverModule == <<FuncImport, FuncBody(BinProg("I32", "Add")), FuncBody(CondBrProg)>>

DriverParams(f) ==
    IF f = 2 THEN <<Concrete("I32", 1, DefaultTags), Runtime(DefaultTags)>>
    ELSE <<Concrete("I32", 0, DefaultTags)>>

\* Addresses 2 and 6 name disjoint words of the heap, 4 a word that overlaps
\* both, 9 a word that ends outside the heap.
OutAddrs == {2, 4, 6, 9}

DriverDirectives ==
    {Directive(f, DriverParams(f), a) : f \in DOMAIN DriverModule, a \in OutAddrs}

DirectiveLists ==
    UNION {[1..n -> DriverDirectives] : n \in 0..MaxDirectives}

\* The call of partially_evaluate.
DriverInit ==
    /\ \E ds \in DirectiveLists, h \in {None, Some(0)} :
            driver = Driving(DriverModule, ds, h)
    /\ pc = "directive"
    /\ generic = Body(<<>>, <<>>)
    /\ directive = <<>>
    /\ overflow_checks = FALSE
    /\ contexts = <<>>
    /\ ssa = EmptyMap
    /\ block_entry = EmptyMap
    /\ block_map = EmptyMap
    /\ block_deps = EmptyMap
    /\ value_map = EmptyMap
    /\ queue = <<>>
    /\ queue_set = {}
    /\ func = [blocks |-> <<>>, values |-> <<>>]
    /\ last_eval = NoEval

\* The for loop over the directives is about to take directive `next`.
AtDirective ==
    /\ pc \in {"directive", "done"}
    /\ driver.next <= Len(driver.directives)

TheDirective == driver.directives[driver.next]

\* body() is None: the error of ok_or_else leaves partially_evaluate_func
\* through `?`, and partially_evaluate through the `?` of its call.
specialize_import_built(d) == [evaluator_built(d) EXCEPT !.result = Some(ImportError)]
specialize_import(d) == [d EXCEPT !.result = Some(ImportError)]

SpecializeImport ==
    /\ AtDirective
    /\ ~IsSome(driver.module[TheDirective.func].body)
    /\ driver' = specialize_import(driver)
    /\ pc' = "returned"
    /\ UNCHANGED <<generic, directive, overflow_checks, contexts, ssa, block_entry,
                   block_map, block_deps, value_map, queue, queue_set, func, last_eval>>

\* partially_evaluate_func of a defined function, up to the call of evaluate().
Specialize ==
    /\ AtDirective
    /\ IsSome(driver.module[TheDirective.func].body)
    /\ LET body == Unwrap(driver.module[TheDirective.func].body)
           a == init_args(body, TheDirective.const_params)
       IN /\ driver' = evaluator_built(driver)
          /\ generic' = body
          /\ directive' = TheDirective.const_params
          /\ pc' = "evaluate"
          /\ contexts' = a.contexts
          /\ ssa' = a.ssa
          /\ block_entry' = a.block_entry
          /\ block_map' = EmptyMap
          /\ block_deps' = EmptyMap
          /\ value_map' = EmptyMap
          /\ queue' = <<<<Entry, Root, Entry>>>>
          /\ queue_set' = {<<Entry, Root>>}
          /\ func' = [blocks |-> a.blocks, values |-> a.values]
          /\ last_eval' = NoEval
    /\ UNCHANGED overflow_checks

\* im.main_heap()?, after the last directive: the writes are those of
\* mem_updates.
main_heap(d) ==
    IF IsSome(d.main_heap) THEN [d EXCEPT !.pending = DOMAIN d.mem_updates]
    ELSE [d EXCEPT !.result = Some(NoMainHeap)]

MainHeap ==
    /\ pc \in {"directive", "done"}
    /\ driver.next > Len(driver.directives)
    /\ driver' = main_heap(driver)
    /\ pc' = IF IsSome(driver.main_heap) THEN "write" ELSE "returned"
    /\ UNCHANGED <<generic, directive, overflow_checks, contexts, ssa, block_entry,
                   block_map, block_deps, value_map, queue, queue_set, func, last_eval>>

\* The i-th byte of the little-endian u32 `value`.
le_byte(value, i) == (value \div ((2 ^ ByteBits) ^ i)) % (2 ^ ByteBits)

\* Image::write_u32: the four bytes at addr, or None when the word does not lie
\* within the heap.
write_u32_high_first(heap, addr, value) ==
    IF \A i \in 0..3 : (addr + i) \in DOMAIN heap
    THEN Some([a \in DOMAIN heap |->
                 IF a \in addr..(addr + 3) THEN le_byte(value, 3 - (a - addr)) ELSE heap[a]])
    ELSE None
write_u32(heap, addr, value) ==
    IF \A i \in 0..3 : (addr + i) \in DOMAIN heap
    THEN Some([a \in DOMAIN heap |->
                 IF a \in addr..(addr + 3) THEN le_byte(value, a - addr) ELSE heap[a]])
    ELSE None

\* One turn of `for (addr, value) in mem_updates`: im.write_u32(heap, addr,
\* value)?.
written(d, addr, w) ==
    IF IsSome(w)
    THEN [d EXCEPT !.heap = Unwrap(w), !.pending = @ \ {addr},
                   !.writes = Append(@, <<addr, d.mem_updates[addr]>>)]
    ELSE [d EXCEPT !.result = Some(OutOfBounds)]

\* A HashMap yields its entries in any order.
WriteImage ==
    /\ pc = "write"
    /\ \E addr \in driver.pending :
            /\ driver' = written(driver, addr,
                                 write_u32(driver.heap, addr, driver.mem_updates[addr]))
            /\ pc' = IF IsSome(write_u32(driver.heap, addr, driver.mem_updates[addr]))
                     THEN "write" ELSE "returned"
    /\ UNCHANGED <<generic, directive, overflow_checks, contexts, ssa, block_entry,
                   block_map, block_deps, value_map, queue, queue_set, func, last_eval>>

\* Ok(()).
ReturnOk ==
    /\ pc = "write"
    /\ driver.pending = {}
    /\ driver' = [driver EXCEPT !.result = Some("Ok")]
    /\ pc' = "returned"
    /\ UNCHANGED <<generic, directive, overflow_checks, contexts, ssa, block_entry,
                   block_map, block_deps, value_map, queue, queue_set, func, last_eval>>

DriverNext ==
    \/ SpecializeImport
    \/ Specialize
    \/ Step
    \/ Finish
    \/ MainHeap
    \/ WriteImage
    \/ ReturnOk

DriverSpec == DriverInit /\ [][DriverNext]_vars

(***************************************************************************)
(* WebAssembly semantics of a body on concrete inputs, by which the claims *)
(* about the specialized body are judged.  A run is the record             *)
(* [outcome, env, globals, values, trace]: outcome "run" while it goes on, *)
(* then "return", "trap", "fuel" (MaxExec blocks were entered), "invalid"  *)
(* (an operand that no executed instruction defined) or "unsupported".     *)
(***************************************************************************)
\* a * b modulo 2^w, no intermediate product above 2^(w + 8).
MulRef(w, a, b) ==
    ((((a * (b \div 256)) % (2 ^ w)) * 256) + a * (b % 256)) % (2 ^ w)

\* Integer binary operators (WebAssembly core specification, numerics): the
\* result bit pattern, or None for a trap.
wasm_binary(op, a, b) ==
    LET w == Width(op.ty)
        m == 2 ^ w
        sa == IF a >= m \div 2 THEN a - m ELSE a
        sb == IF b >= m \div 2 THEN b - m ELSE b
        k == b % w
    IN CASE op.op = "Add" -> Some((a + b) % m)
         [] op.op = "Sub" -> Some((a - b) % m)
         [] op.op = "Mul" -> Some(MulRef(w, a, b))
         [] op.op = "DivU" -> IF b = 0 THEN None ELSE Some(a \div b)
         [] op.op = "RemU" -> IF b = 0 THEN None ELSE Some(a % b)
         [] op.op = "DivS" ->
                IF b = 0 \/ (sa = -(m \div 2) /\ sb = -1) THEN None
                ELSE Some(TruncDiv(sa, sb) % m)
         [] op.op = "RemS" -> IF b = 0 THEN None ELSE Some((sa - sb * TruncDiv(sa, sb)) % m)
         [] op.op \in {"And", "Or", "Xor"} -> Some(BitOp(op.op, a, b, w))
         [] op.op = "Shl" -> Some((a % 2 ^ (w - k)) * 2 ^ k)
         [] op.op = "ShrU" -> Some(a \div 2 ^ k)
         [] op.op = "ShrS" -> Some((sa \div 2 ^ k) % m)
         [] op.op = "Rotl" -> Some((a % 2 ^ (w - k)) * 2 ^ k + (a \div 2 ^ (w - k)))
         [] op.op = "Rotr" -> Some((a \div 2 ^ k) + (a % 2 ^ k) * 2 ^ (w - k))
         [] op.op = "Eq" -> Some(Bool(a = b))
         [] op.op = "Ne" -> Some(Bool(a # b))
         [] op.op = "LtS" -> Some(Bool(sa < sb))
         [] op.op = "LtU" -> Some(Bool(a < b))
         [] op.op = "GtS" -> Some(Bool(sa > sb))
         [] op.op = "GtU" -> Some(Bool(a > b))
         [] op.op = "LeS" -> Some(Bool(sa <= sb))
         [] op.op = "LeU" -> Some(Bool(a <= b))
         [] op.op = "GeS" -> Some(Bool(sa >= sb))
         [] op.op = "GeU" -> Some(Bool(a >= b))

\* A load at the effective address a + offset (not wrapped) of a memory that
\* holds the image and nothing else: None (a trap) outside it.
wasm_load(op, a) ==
    IF IsSome(read_size(a + op.imm, load_size(op)))
    THEN Some(load_conv(op, Unwrap(read_size(a + op.imm, load_size(op)))))
    ELSE None

Bind(r, v, k) == [r EXCEPT !.env = Put(@, v, k)]
Stop(r, outcome) == [r EXCEPT !.outcome = outcome]
BindOrTrap(r, v, result) == IF IsSome(result) THEN Bind(r, v, Unwrap(result)) ELSE Stop(r, "trap")
Defined(env, vs) == \A i \in DOMAIN vs : Has(env, vs[i])

\* One operator on the operand values a.
exec_operator(r, v, op, a) ==
    CASE op.op = "Const" -> Bind(r, v, op.imm)
      [] op.op = "GlobalGet" ->
            Bind(r, v, IF Has(r.globals, op.imm) THEN r.globals[op.imm] ELSE 0)
      [] op.op = "GlobalSet" -> [r EXCEPT !.globals = Put(@, op.imm, a[1])]
      [] op.op = "Call" /\ Some(op.imm) = intrinsics.loop_header -> r
      [] op.op = "Call" /\ Some(op.imm) \in {intrinsics.assume_const_memory,
                                            intrinsics.loop_pc32_update} -> Bind(r, v, a[1])
      [] op.op \in Loads /\ Len(a) = 1 -> BindOrTrap(r, v, wasm_load(op, a[1]))
      [] op.op \in BinaryOps /\ Len(a) = 2 -> BindOrTrap(r, v, wasm_binary(op, a[1], a[2]))
      [] op.op \in {"Select", "TypedSelect"} /\ Len(a) = 3 ->
            Bind(r, v, IF a[3] # 0 THEN a[1] ELSE a[2])
      [] OTHER -> Stop(r, "unsupported")

exec_inst(r, v, d) ==
    CASE d.kind = "Alias" ->
            IF Has(r.env, d.val) THEN Bind(r, v, r.env[d.val]) ELSE Stop(r, "invalid")
      [] d.kind = "Operator" ->
            IF Defined(r.env, d.args)
            THEN exec_operator(r, v, d.op, [i \in DOMAIN d.args |-> r.env[d.args[i]]])
            ELSE Stop(r, "invalid")
      [] OTHER -> Stop(r, "unsupported")

RECURSIVE exec_insts(_, _, _)
exec_insts(body, r, insts) ==
    IF insts = <<>> \/ r.outcome # "run" THEN r
    ELSE exec_insts(body, exec_inst(r, Head(insts), body.values[Head(insts)]), Tail(insts))

\* The end of a block's visit: the trace gains the block, the values at its
\* end and the block the run goes to (0 when it goes nowhere).
Visit(r, b, next) ==
    [r EXCEPT !.trace = Append(@, [block |-> b, env |-> r.env, next |-> next])]

\* Entering a block: its own values are forgotten, its parameters bound.
Enter(r, blk, a) ==
    [r EXCEPT !.env =
        [i \in {blk.params[j] : j \in DOMAIN blk.params \cap DOMAIN a} |->
            a[CHOOSE j \in DOMAIN blk.params : blk.params[j] = i]]
        @@ [k \in DOMAIN r.env \ Range(blk.insts) |-> r.env[k]]]

\* The target a terminator selects, as <<target>>; None when it selects none.
exec_select(r, term) ==
    CASE term.kind = "Br" -> Some(term.target)
      [] term.kind = "CondBr" /\ Has(r.env, term.cond) ->
            Some(IF r.env[term.cond] # 0 THEN term.if_true ELSE term.if_false)
      [] term.kind = "Select" /\ Has(r.env, term.value) ->
            Some(IF r.env[term.value] < Len(term.targets)
                 THEN term.targets[r.env[term.value] + 1] ELSE term.default)
      [] OTHER -> None

RECURSIVE exec_block(_, _, _, _)
RECURSIVE exec_term(_, _, _, _, _)
RECURSIVE exec_edge(_, _, _, _, _)
exec_edge(body, r, b, target, fuel) ==
    IF ~Defined(r.env, target.args) THEN Stop(Visit(r, b, 0), "invalid")
    ELSE exec_block(body, target.block,
                    Enter(Visit(r, b, target.block), body.blocks[target.block],
                          [i \in DOMAIN target.args |-> r.env[target.args[i]]]),
                    fuel - 1)

exec_term(body, r, b, term, fuel) ==
    IF r.outcome # "run" THEN Visit(r, b, 0)
    ELSE IF term.kind = "Return"
    THEN IF Defined(r.env, term.values)
         THEN [Visit(r, b, 0) EXCEPT !.outcome = "return",
                                     !.values = [i \in DOMAIN term.values |->
                                                    r.env[term.values[i]]]]
         ELSE Stop(Visit(r, b, 0), "invalid")
    ELSE IF term.kind = "Unreachable" THEN Stop(Visit(r, b, 0), "trap")
    ELSE IF IsSome(exec_select(r, term))
    THEN exec_edge(body, r, b, Unwrap(exec_select(r, term)), fuel)
    ELSE Stop(Visit(r, b, 0), "invalid")

exec_block(body, b, r, fuel) ==
    IF fuel = 0 THEN Stop(r, "fuel")
    ELSE exec_term(body, exec_insts(body, r, body.blocks[b].insts), b,
                   body.blocks[b].terminator, fuel)

\* The run of a body on the input vector `inputs`.
exec(body, inputs) ==
    exec_block(body, Entry,
               Enter([outcome |-> "run", env |-> EmptyMap, globals |-> EmptyMap,
                      values |-> <<>>, trace |-> <<>>],
                     body.blocks[Entry], inputs),
               MaxExec)

\* What a caller observes of a run.
Observable(r) == [outcome |-> r.outcome, values |-> r.values, globals |-> r.globals]

\* The concrete values a formal may take: the directive's constant, or any
\* value when the directive leaves it to run time.
InputVals == {0, 1, 2, 3}
RECURSIVE Inputs(_)
Inputs(args) ==
    IF args = <<>> THEN {<<>>}
    ELSE {<<h>> \o rest :
            h \in (IF Head(args).kind = "Concrete" THEN {Head(args).bits} ELSE InputVals),
            rest \in Inputs(Tail(args))}

\* The (context, original block) a specialized block was made for.
orig_of(b) ==
    IF b = Entry THEN <<Root, Entry>>
    ELSE CHOOSE k \in DOMAIN block_map : block_map[k] = b

\* The specialized block the run o of the original body is in at its visit i:
\* the path of o followed through the terminators of the specialized body, 0
\* once a specialized terminator has no target for the block o goes to.
AlongPick(c) == IF c = {} THEN 0 ELSE CHOOSE t \in c : TRUE
AlongNext(sb, next) ==
    IF sb = 0 THEN 0 ELSE AlongPick({t \in Succs(func, sb) : orig_of(t)[2] = next})
RECURSIVE Along(_, _)
Along(o, i) == IF i = 1 THEN Entry ELSE AlongNext(Along(o, i - 1), o.trace[i - 1].next)

(***************************************************************************)
(* Evaluator::evaluate as a function: the run to its end in which every    *)
(* HashSet is iterated in one fixed order.                                 *)
(***************************************************************************)
FixedOrder(set) == CHOOSE o \in Orders(set) : TRUE

RECURSIVE Flatten(_)
Flatten(batches) ==
    IF batches = <<>> THEN <<>> ELSE FixedOrder(Head(batches)) \o Flatten(Tail(batches))

RECURSIVE evaluate(_, _)
RECURSIVE evaluate_popped(_, _)
evaluate(t, q) ==
    IF q = <<>> \/ t.panic # "" \/ Len(t.contexts) > MaxContexts THEN t
    ELSE evaluate_popped(
            evaluate_block([t EXCEPT !.queue_set = @ \ {<<Head(q)[1], Head(q)[2]>>},
                                     !.pushed = <<>>],
                           Head(q)[1], Head(q)[2], Head(q)[3]),
            Tail(q))
evaluate_popped(s, rest) == evaluate(s, rest \o Flatten(s.pushed))

\* The evaluator partially_evaluate_func builds for (body, args).
Started(a) ==
    [contexts |-> a.contexts, ssa |-> a.ssa, block_entry |-> a.block_entry,
     block_map |-> EmptyMap, block_deps |-> EmptyMap, value_map |-> EmptyMap,
     queue_set |-> {<<Entry, Root>>}, pushed |-> <<>>,
     blocks |-> a.blocks, values |-> a.values,
     panic |-> "", log |-> <<>>, edges |-> <<>>, defs |-> <<>>, term |-> NoBranch]

FixedOrderBody(t) == [blocks |-> t.blocks, values |-> t.values]

(***************************************************************************)
(* Properties.                                                             *)
(***************************************************************************)
RECURSIVE Ancestors(_)
\* The proper ancestors of a context in the context tree.
Ancestors(c) ==
    IF c = Root THEN {} ELSE {contexts[c].parent} \cup Ancestors(contexts[c].parent)

\* C1: the worklist loop of Evaluator::evaluate reaches an empty queue after
\* finitely many iterations.  Every iteration works on an interned (context,
\* block) pair, so the loop ends only if the run creates finitely many contexts,
\* and contexts interned by (parent, element) are finitely many only if no
\* context nests the loop header of one of its own ancestors: leaving a loop
\* pops its context, re-entering it finds the interned one again.
C1_Termination ==
    \A c \in DOMAIN contexts :
        \A a \in Ancestors(c) : contexts[a].elem.header # contexts[c].elem.header

\* C2: across def_value calls the abstract value stored for a (context,
\* original value) pair only descends: every call that finds an entry leaves
\* it Below what it found, and from one worklist step to the next every stored
\* entry stays and is Below what it was.
C2_Monotone ==
    [][/\ \A k \in DOMAIN ssa : k \in DOMAIN ssa' /\ Below(ssa'[k].abs, ssa[k].abs)
       /\ \A i \in DOMAIN last_eval'.defs :
            IsSome(last_eval'.defs[i].before) =>
                Below(last_eval'.defs[i].after, Unwrap(last_eval'.defs[i].before))]_vars

\* A def_value call found Concrete(k) stored and left Runtime.
C2_Witness ==
    \E i \in DOMAIN last_eval.defs :
        /\ IsSome(last_eval.defs[i].before)
        /\ Unwrap(last_eval.defs[i].before).kind = "Concrete"
        /\ last_eval.defs[i].after.kind = "Runtime"

\* The specialized value of original value v in context ctx is a constant that
\* stands in its block in place of an operator that is no constant.
FoldedAt(ctx, b, v) ==
    /\ generic.values[v].kind = "Operator"
    /\ generic.values[v].op.op # "Const"
    /\ Has(value_map, <<ctx, v>>)
    /\ value_map[<<ctx, v>>] \in Range(func.blocks[b].insts)
    /\ func.values[value_map[<<ctx, v>>]].kind = "Operator"
    /\ func.values[value_map[<<ctx, v>>]].op.op = "Const"

\* Every folded instruction of the specialized block sb the run o is in at its
\* visit i holds the value o computed there.
FoldsAgree(o, i, sb) ==
    sb # 0 =>
        \A v \in Range(generic.blocks[o.trace[i].block].insts) :
            (FoldedAt(orig_of(sb)[1], sb, v) /\ Has(o.trace[i].env, v))
            => o.trace[i].env[v] = func.values[value_map[<<orig_of(sb)[1], v>>]].op.imm

FoldSound(o) == \A i \in 1..Len(o.trace) : FoldsAgree(o, i, Along(o, i))

\* C3: at termination, every instruction emitted as a constant c in place of an
\* original operator computes c on every concrete run of the original body,
\* consistent with the directive, that reaches it under that context.
C3_ConstantFoldSound ==
    pc = "done" => \A in \in Inputs(directive) : FoldSound(exec(generic, in))

\* The Br that replaced the CondBr or Select of the block the run o is in at its
\* visit i, in the specialized block sb, goes where o went.
BranchAgrees(o, i, sb) ==
    (/\ sb # 0
     /\ generic.blocks[o.trace[i].block].terminator.kind \in {"CondBr", "Select"}
     /\ func.blocks[sb].terminator.kind = "Br"
     /\ o.trace[i].next # 0)
    => orig_of(func.blocks[sb].terminator.target.block)[2] = o.trace[i].next

BranchSound(o) == \A i \in 1..Len(o.trace) : BranchAgrees(o, i, Along(o, i))

\* C4: at termination, where an unconditional Br replaced a CondBr or Select, no
\* concrete run of the original body, consistent with the directive and
\* reaching that block under that context, takes another target.
C4_BranchFoldSound ==
    pc = "done" => \A in \in Inputs(directive) : BranchSound(exec(generic, in))

Equivalent(o, s) == o.outcome \in {"return", "trap"} => Observable(s) = Observable(o)

\* C5: at termination, on every input vector that agrees with the directive's
\* Concrete arguments the specialized body returns the same values and leaves
\* the same globals written as the original body.
C5_SemanticEquivalence ==
    pc = "done" =>
        \A in \in Inputs(directive) : Equivalent(exec(generic, in), exec(func, in))

\* C6: the specialized body at termination is the same whatever order def_value
\* iterates a block_deps set in: it is the body of the run that iterates every
\* set in one fixed order.
C6_Deterministic ==
    pc = "done" =>
        func = FixedOrderBody(evaluate(Started(init_args(generic, directive)),
                                       <<<<Entry, Root, Entry>>>>))

\* The specialized value use_value resolves original value v to from ctx.
Resolved(ctx, v) ==
    ssa[<<lookup_context([ssa |-> ssa, contexts |-> contexts], ctx, v), v>>].val

\* The logged instruction e was emitted as its original operator on the
\* resolved arguments, with a Runtime result.
NotFolded(e) ==
    /\ e.result.kind = "Runtime"
    /\ e.stored.kind = "Runtime"
    /\ func.values[e.value]
         = Operator(e.op,
                    [i \in DOMAIN generic.values[e.inst].args |->
                        Resolved(e.context, resolve_alias(generic,
                                                          generic.values[e.inst].args[i]))],
                    generic.values[e.inst].tys)
    /\ e.value \in Range(func.blocks[last_eval.new_block].insts)

\* The logged instruction e was emitted as the constant k of type ty, which is
\* also the abstract value stored for it.
FoldedTo(e, ty, k) ==
    /\ func.values[e.value] = Const(ty, k)
    /\ e.value \in Range(func.blocks[last_eval.new_block].insts)
    /\ value_map[<<e.context, e.inst>>] = e.value
    /\ ssa[<<e.context, e.inst>>].abs.kind = "Concrete"
    /\ ssa[<<e.context, e.inst>>].abs.ty = ty
    /\ ssa[<<e.context, e.inst>>].abs.bits = k

TaggedAddress(a) == a.kind = "Concrete" /\ a.ty = "I32" /\ const_memory \subseteq a.tags

LoadRestricted(e) ==
    /\ e.result.kind = "Concrete" => TaggedAddress(e.args[1])
    /\ ~TaggedAddress(e.args[1]) => NotFolded(e)

\* C7: a load yields a Concrete abstract value only if its address is
\* Concrete(I32(k), t) with const_memory in t; for every other address the
\* result is Runtime and the original load is emitted.
C7_LoadFoldRestriction ==
    \A i \in DOMAIN last_eval.log :
        last_eval.log[i].op.op \in Loads => LoadRestricted(last_eval.log[i])

\* A load whose address is a constant without const_memory was left a load.
C7_Witness ==
    \E i \in DOMAIN last_eval.log :
        /\ last_eval.log[i].op.op \in Loads
        /\ last_eval.log[i].args[1].kind = "Concrete"
        /\ ~TaggedAddress(last_eval.log[i].args[1])
        /\ NotFolded(last_eval.log[i])

ConcretePair(e) ==
    /\ e.op.ty \in {"I32", "I64"}
    /\ Len(e.args) = 2
    /\ \A i \in 1..2 : e.args[i].kind = "Concrete" /\ e.args[i].ty = e.op.ty

\* C8: add, sub, mul, and, or, xor on two Concrete operands of the operator's
\* width are emitted as the constant holding the result modulo 2^width, and
\* that constant is the stored abstract value.
C8_ArithmeticFolds ==
    \A i \in DOMAIN last_eval.log :
        (last_eval.log[i].op.op \in Arithmetic /\ ConcretePair(last_eval.log[i]))
        => FoldedTo(last_eval.log[i], last_eval.log[i].op.ty,
                    Unwrap(wasm_binary(last_eval.log[i].op, last_eval.log[i].args[1].bits,
                                       last_eval.log[i].args[2].bits)))

\* The largest word plus one was emitted as the constant 0.
C8_Witness ==
    \E i \in DOMAIN last_eval.log :
        /\ last_eval.log[i].op.op = "Add"
        /\ ConcretePair(last_eval.log[i])
        /\ last_eval.log[i].args[1].bits = MaxU(last_eval.log[i].op.ty)
        /\ last_eval.log[i].args[2].bits = 1
        /\ func.values[last_eval.log[i].value] = Const(last_eval.log[i].op.ty, 0)

\* The operand pairs division and remainder must not fold: divisor 0, and
\* (INT_MIN, -1) for the signed operators.
DivRemExcluded(e) ==
    /\ e.args[2].kind = "Concrete"
    /\ \/ e.args[2].bits = 0
       \/ /\ e.op.op \in {"DivS", "RemS"}
          /\ e.args[1].kind = "Concrete"
          /\ e.args[1].bits = MinS(e.op.ty)
          /\ e.args[2].bits = MaxU(e.op.ty)

DivRemRight(e) ==
    /\ (DivRemExcluded(e) \/ e.args[1].kind = "Runtime") => NotFolded(e)
    /\ (ConcretePair(e) /\ ~DivRemExcluded(e))
        => FoldedTo(e, e.op.ty, Unwrap(wasm_binary(e.op, e.args[1].bits, e.args[2].bits)))

\* C9: division and remainder are not folded for divisor 0, nor the signed
\* ones for (INT_MIN, -1), nor for a Runtime dividend: the original operator is
\* emitted on the resolved arguments with a Runtime result.  Every other
\* concrete pair folds to the WebAssembly result.
C9_DivRem ==
    \A i \in DOMAIN last_eval.log :
        last_eval.log[i].op.op \in DivRems => DivRemRight(last_eval.log[i])

\* A signed division of INT_MIN by -1 was left a division.
C9_Witness ==
    \E i \in DOMAIN last_eval.log :
        /\ last_eval.log[i].op.op = "DivS"
        /\ ConcretePair(last_eval.log[i])
        /\ last_eval.log[i].args[1].bits = MinS(last_eval.log[i].op.ty)
        /\ last_eval.log[i].args[2].bits = MaxU(last_eval.log[i].op.ty)
        /\ NotFolded(last_eval.log[i])

\* The terminator of the block the latest step evaluated.
LastTerm == generic.blocks[last_eval.orig_block].terminator

\* The latest step decided a CondBr on a constant, or a Select on a concrete u32.
BranchFolded ==
    /\ last_eval.panic = ""
    /\ \/ last_eval.term.kind = "CondBr" /\ last_eval.term.abs.kind = "Concrete"
       \/ /\ last_eval.term.kind = "Select"
          /\ last_eval.term.abs.kind = "Concrete" /\ last_eval.term.abs.ty = "I32"

\* The target the original terminator takes on the constant.
Chosen ==
    IF last_eval.term.kind = "CondBr"
    THEN IF last_eval.term.abs.bits # 0 THEN LastTerm.if_true ELSE LastTerm.if_false
    ELSE IF last_eval.term.abs.bits < Len(LastTerm.targets)
         THEN LastTerm.targets[last_eval.term.abs.bits + 1] ELSE LastTerm.default

\* The blocks of the other targets of the terminator.
OtherTargets == Succs(generic, last_eval.orig_block) \ {Chosen.block}

\* The specialized terminator is a single Br to the specialization of Chosen,
\* and the edge to it is the only edge the step evaluated.
SingleBr ==
    /\ func.blocks[last_eval.new_block].terminator.kind = "Br"
    /\ Len(last_eval.edges) = 1
    /\ last_eval.edges[1].to = Chosen.block
    /\ func.blocks[last_eval.new_block].terminator.target.block = last_eval.edges[1].block
    /\ block_map[<<last_eval.edges[1].context, Chosen.block>>] = last_eval.edges[1].block

\* What the latest step pushed onto the worklist.
Pushed == UNION Range(last_eval.pushed)

\* Every original block with a specialization is the target of an edge of the
\* final body.
TakenAtEnd ==
    pc = "done" =>
        \A k \in DOMAIN block_map :
            \E b \in DOMAIN func.blocks :
                \E tg \in Range(Targets(func.blocks[b].terminator)) :
                    orig_of(tg.block)[2] = k[2]

\* C10 as stated: a CondBr on a constant, or a Select on a concrete u32, becomes
\* a single Br to the chosen target, its evaluation creates or enqueues no
\* specialized block of another target of the terminator, and at termination a
\* target no taken edge reaches has no entry in block_map.
C10_BranchFoldOriginal ==
    /\ BranchFolded => (SingleBr /\ \A item \in Pushed : item[1] \notin OtherTargets)
    /\ TakenAtEnd

\* C10 amended: as stated, except that the evaluation may re-queue the existing
\* specialized block of another target: it creates none.
C10_BranchFold ==
    /\ BranchFolded =>
        (SingleBr /\ \A item \in Pushed :
                        item[1] \in OtherTargets => item[3] <= last_eval.nblocks)
    /\ TakenAtEnd

\* A CondBr on a constant became a Br and another target has no specialization.
C10_Witness ==
    /\ BranchFolded
    /\ last_eval.term.kind = "CondBr"
    /\ SingleBr
    /\ \E b \in OtherTargets : \A k \in DOMAIN block_map : k[2] # b

\* Contexts are interned: no two of them have the same parent and element.
Interned ==
    \A i, j \in DOMAIN contexts : contexts[i] = contexts[j] => i = j

\* Different (context, block) keys have different specialized blocks.
OneBlockEach ==
    \A k1, k2 \in DOMAIN block_map : block_map[k1] = block_map[k2] => k1 = k2

\* The edge e is a back-edge to the header of the context it was taken from,
\* with a pc staged.
StagedBackEdge(e) ==
    /\ contexts[e.from_context].elem.header = e.to
    /\ e.to # Entry
    /\ e.staged_pc.kind = "Some"

\* The edge e led to the sibling of its context with element (pc, header), and
\* to the specialized block of the header in it.
ToSibling(e) ==
    /\ contexts[e.context] = [parent |-> contexts[e.from_context].parent,
                              elem |-> ContextElem(e.staged_pc.pc, e.to)]
    /\ block_map[<<e.context, e.to>>] = e.block

StagedEdgesToSiblings ==
    last_eval.panic = "" =>
        \A i \in DOMAIN last_eval.edges :
            StagedBackEdge(last_eval.edges[i]) => ToSibling(last_eval.edges[i])

\* C11: a back-edge to the header H of its own context with pc p staged leads to
\* the context (p, H) under the same parent and to the specialized block of H
\* in it; contexts are interned and never change, and block_map gives different
\* keys different blocks and never changes an entry, so different pcs give
\* different contexts and blocks and the same pc gives the same ones again.
C11_LoopDuplication ==
    [][/\ \A i \in DOMAIN contexts : i \in DOMAIN contexts' /\ contexts'[i] = contexts[i]
       /\ \A k \in DOMAIN block_map : k \in DOMAIN block_map' /\ block_map'[k] = block_map[k]
       /\ Interned'
       /\ OneBlockEach'
       /\ StagedEdgesToSiblings']_vars

\* Two pcs gave two sibling contexts with a block of the header each, and the
\* latest step took a staged back-edge to a block that existed already.
C11_Witness ==
    /\ \E c1, c2 \in DOMAIN contexts :
        /\ contexts[c1].parent = contexts[c2].parent
        /\ contexts[c1].elem.header = contexts[c2].elem.header
        /\ IsSome(contexts[c1].elem.pc) /\ IsSome(contexts[c2].elem.pc)
        /\ contexts[c1].elem.pc # contexts[c2].elem.pc
        /\ Has(block_map, <<c1, contexts[c1].elem.header>>)
        /\ Has(block_map, <<c2, contexts[c2].elem.header>>)
        /\ block_map[<<c1, contexts[c1].elem.header>>]
             # block_map[<<c2, contexts[c2].elem.header>>]
    /\ \E i \in DOMAIN last_eval.edges :
        /\ StagedBackEdge(last_eval.edges[i])
        /\ IsSome(last_eval.edges[i].staged_pc.pc)
        /\ ~last_eval.edges[i].created

\* The bytes a load reads, and the little-endian value d of them truncated to
\* the load's width and sign- or zero-extended to its result type.
LoadBytes(op) ==
    CASE op.op = "Load" -> IF op.ty = "I32" THEN 4 ELSE 8
      [] op.op \in {"Load8U", "Load8S"} -> 1
      [] op.op \in {"Load16U", "Load16S"} -> 2
      [] op.op \in {"Load32U", "Load32S"} -> 4
LoadExtended(op, low, bits) ==
    IF op.op \in {"Load8S", "Load16S", "Load32S"} /\ low >= 2 ^ (bits - 1)
    THEN low + Modulus(op.ty) - 2 ^ bits
    ELSE low
LoadValue(op, d) ==
    LoadExtended(op, d % (2 ^ (ByteBits * LoadBytes(op))), ByteBits * LoadBytes(op))

\* The logged load e did what the read d of the image at k + o asks for.
LoadRight(e, d) ==
    IF IsSome(d)
    THEN e.result = Concrete(e.op.ty, LoadValue(e.op, Unwrap(d)), e.args[1].tags)
    ELSE e.result = Runtime(DefaultTags) /\ NotFolded(e)

\* C12: a load at a Concrete address k tagged const_memory, with offset o,
\* yields the extended little-endian value of the image at k + o with the
\* address's tags when that read succeeds, and Runtime with default tags and
\* the load itself when it fails, for every k and o, k + o beyond the largest
\* address included.
C12_LoadFold ==
    /\ last_eval.panic # "attempt to add with overflow"
    /\ last_eval.panic = "" =>
        \A i \in DOMAIN last_eval.log :
            (last_eval.log[i].op.op \in Loads /\ TaggedAddress(last_eval.log[i].args[1]))
            => LoadRight(last_eval.log[i],
                         read_size(last_eval.log[i].args[1].bits + last_eval.log[i].op.imm,
                                   LoadBytes(last_eval.log[i].op)))

\* C12 for the addresses k with k + o within the address space.
C12_LoadFoldInRange ==
    last_eval.panic = "" =>
        \A i \in DOMAIN last_eval.log :
            (/\ last_eval.log[i].op.op \in Loads
             /\ TaggedAddress(last_eval.log[i].args[1])
             /\ last_eval.log[i].args[1].bits + last_eval.log[i].op.imm <= MaxU("I32"))
            => LoadRight(last_eval.log[i],
                         read_size(last_eval.log[i].args[1].bits + last_eval.log[i].op.imm,
                                   LoadBytes(last_eval.log[i].op)))

\* The logged select e, its condition being cond and its alternatives a (taken
\* when the condition is not 0) and b.
SelectRight(e, cond, a, b) ==
    /\ cond.kind = "Concrete" => e.result = (IF cond.bits # 0 THEN a ELSE b)
    /\ cond.kind = "Runtime" => (e.result.kind = "Runtime" /\ NotFolded(e))

\* C13: the result of select and typed_select on a Concrete condition is the
\* abstract value of the operand WebAssembly chooses, the operands being
\* (a, b, condition) as on the operand stack: b when the condition is 0, a
\* otherwise; on a Runtime condition the result is Runtime and the select is
\* emitted on its resolved operands.
C13_Select ==
    \A i \in DOMAIN last_eval.log :
        last_eval.log[i].op.op \in {"Select", "TypedSelect"}
        => SelectRight(last_eval.log[i], last_eval.log[i].args[3],
                       last_eval.log[i].args[1], last_eval.log[i].args[2])

\* C13 with the first operand read as the condition and the other two as the
\* alternatives.
C13_SelectFirstOperand ==
    \A i \in DOMAIN last_eval.log :
        last_eval.log[i].op.op \in {"Select", "TypedSelect"}
        => SelectRight(last_eval.log[i], last_eval.log[i].args[1],
                       last_eval.log[i].args[2], last_eval.log[i].args[3])

(***************************************************************************)
(* The driver.                                                             *)
(***************************************************************************)
ImportNamed == AtDirective /\ ~IsSome(driver.module[TheDirective.func].body)

\* C14: when the directive the driver takes next names an imported function
\* (body() is None), the step returns the import error from
\* partially_evaluate_func and from partially_evaluate, adds no function to the
\* module and builds no Evaluator.
C14_ImportError ==
    [][ImportNamed =>
          /\ driver'.result = Some(ImportError)
          /\ pc' = "returned"
          /\ driver'.module = driver.module
          /\ driver'.evaluators = driver.evaluators]_vars

\* The second directive named an import, after the first was specialized.
C14_Witness ==
    /\ pc = "returned"
    /\ driver.result = Some(ImportError)
    /\ driver.next = 2
    /\ ~IsSome(driver.module[driver.directives[2].func].body)
    /\ Len(driver.module) = Len(DriverModule) + 1

OutAddr(j) == driver.directives[j].func_index_out_addr

\* Every directive has been specialized.
AllSucceeded == driver.next > Len(driver.directives)

\* The heap holds the little-endian u32 v in the four bytes at addr.
WordIs(heap, addr, v) ==
    /\ \A i \in 0..3 : (addr + i) \in DOMAIN heap
    /\ heap[addr] + (2 ^ ByteBits) * heap[addr + 1]
         + ((2 ^ ByteBits) ^ 2) * heap[addr + 2]
         + ((2 ^ ByteBits) ^ 3) * heap[addr + 3] = v

NoEarlyWrite == driver.writes # <<>> => AllSucceeded

\* C15, as stated: if every directive succeeds then, when partially_evaluate
\* has returned, the word at each directive's func_index_out_addr is the index
\* of the function added for that directive; and no write to the image is
\* made before the last directive has been processed.
C15_ImageReflectsOriginal ==
    /\ (pc = "returned" /\ AllSucceeded) =>
            \A j \in DOMAIN driver.directives :
                WordIs(driver.heap, OutAddr(j), driver.added[j])
    /\ NoEarlyWrite

\* The word of directive j shares no byte with the word of a directive that
\* names another address.
Apart(j) ==
    \A i \in DOMAIN driver.directives :
        \/ OutAddr(i) = OutAddr(j)
        \/ OutAddr(i) + 3 < OutAddr(j)
        \/ OutAddr(j) + 3 < OutAddr(i)

\* The last directive that names the address of directive j.
LastNaming(j) ==
    CHOOSE i \in DOMAIN driver.directives :
        /\ OutAddr(i) = OutAddr(j)
        /\ \A h \in DOMAIN driver.directives : OutAddr(h) = OutAddr(j) => h <= i

\* C15, amended: if partially_evaluate has returned Ok then, for each directive
\* whose word at func_index_out_addr shares no byte with the word of a
\* directive naming another address, the word is the index of the function
\* added for the last directive that names the same address; and no write to
\* the image is made before the last directive has been processed.
C15_ImageReflects ==
    /\ (pc = "returned" /\ driver.result = Some("Ok")) =>
            \A j \in DOMAIN driver.directives :
                Apart(j) => WordIs(driver.heap, OutAddr(j), driver.added[LastNaming(j)])
    /\ NoEarlyWrite

\* Two directives with disjoint words were specialized and both indices written.
C15_Witness ==
    /\ pc = "returned"
    /\ driver.result = Some("Ok")
    /\ Len(driver.directives) = 2
    /\ OutAddr(1) # OutAddr(2)
    /\ Apart(1)
    /\ Len(driver.writes) = 2

\* partially_evaluate has returned the error of directive driver.next.
DirectiveFailed ==
    /\ pc = "returned"
    /\ driver.result = Some(ImportError)

\* C16: when partially_evaluate has returned because its k-th directive
\* failed, the result is that directive's error, the module holds the
\* functions added for directives 1..k-1 after its own, no directive after
\* the k-th was taken up, and the image has received no write.
C16_DirectiveFailure ==
    DirectiveFailed =>
        /\ driver.next \in DOMAIN driver.directives
        /\ ~IsSome(driver.module[TheDirective.func].body)
        /\ Len(driver.added) = driver.next - 1
        /\ Len(driver.module) = Len(DriverModule) + driver.next - 1
        /\ \A j \in 1..(driver.next - 1) :
               /\ driver.added[j] = Len(DriverModule) + j
               /\ IsSome(driver.module[driver.added[j]].body)
        /\ \A f \in DOMAIN DriverModule : driver.module[f] = DriverModule[f]
        /\ driver.evaluators = driver.next - 1
        /\ driver.writes = <<>>
        /\ driver.heap = image
        /\ driver.pending = {}

\* The first of two directives was specialized, the second failed.
C16_Witness ==
    /\ DirectiveFailed
    /\ driver.next = 2
    /\ Len(driver.added) = 1
    /\ driver.mem_updates # EmptyMap

(***************************************************************************)
(* The specialized body.                                                   *)
(***************************************************************************)
\* The places <<block, position>> of the new body's instruction lists that
\* hold the value v.
Occurrences(v) ==
    {p \in UNION {{<<b, i>> : i \in DOMAIN func.blocks[b].insts} : b \in DOMAIN func.blocks} :
        func.blocks[p[1]].insts[p[2]] = v}

Emitting(b) ==
    {i \in DOMAIN generic.blocks[b].insts :
        generic.values[generic.blocks[b].insts[i]].kind # "Alias"}

\* C17: in every state each value of a specialized block's instruction list
\* occurs in one list only and once in it; an Alias instruction of the
\* original block gets no specialized value, and the block just evaluated
\* holds one instruction for each instruction of the original block that is
\* not an Alias.
C17_InstsUnique ==
    /\ \A b \in DOMAIN func.blocks : \A i \in DOMAIN func.blocks[b].insts :
           Occurrences(func.blocks[b].insts[i]) = {<<b, i>>}
    /\ \A key \in DOMAIN value_map : generic.values[key[2]].kind # "Alias"
    /\ (last_eval.new_block # 0 /\ last_eval.panic = "") =>
           Len(func.blocks[last_eval.new_block].insts)
               = Cardinality(Emitting(last_eval.orig_block))

\* A block with an Alias among its three instructions was specialized to two.
C17_Witness ==
    /\ last_eval.new_block # 0
    /\ last_eval.panic = ""
    /\ \E i \in DOMAIN generic.blocks[last_eval.orig_block].insts :
           generic.values[generic.blocks[last_eval.orig_block].insts[i]].kind = "Alias"
    /\ Len(func.blocks[last_eval.new_block].insts) = 2

\* C18: for every (context, block) key of block_map the block_entry map of
\* that context has an entry for the block, so has every item of the
\* worklist, and the unwrap at the start of evaluate_block has not failed.
C18_BlockEntry ==
    /\ \A key \in DOMAIN block_map : Has(block_entry, key)
    /\ \A i \in DOMAIN queue : Has(block_entry, <<queue[i][2], queue[i][1]>>)
    /\ last_eval.panic # "unwrap of a missing block_entry"

\* A block created by an edge into a context other than the root has been
\* evaluated.
C18_Witness ==
    /\ last_eval.panic = ""
    /\ last_eval.context # Root
    /\ Has(block_map, <<last_eval.context, last_eval.orig_block>>)
    /\ block_map[<<last_eval.context, last_eval.orig_block>>] = last_eval.new_block

(***************************************************************************)
(* The staged pc.                                                          *)
(***************************************************************************)
\* The edge e reached the header of its own context with a pc staged or in
\* conflict: target_block cleared the staged pc of the state it went on with.
ConsumesStaged(e) ==
    /\ contexts[e.from_context].elem.header = e.to
    /\ e.to # Entry
    /\ e.staged_pc.kind \in {"Some", "Conflict"}

EntryCleared(e) ==
    /\ Has(block_entry, <<e.context, e.to>>)
    /\ block_entry[<<e.context, e.to>>].staged_pc = StagedNone

\* C19: after an edge to a loop header has consumed the staged pc (Some or
\* Conflict), the entry state recorded for the specialized block it leads to
\* has no staged pc, whether the edge created the block or met its state into
\* the entry of an existing one.
C19_StagedConsumedOnce ==
    last_eval.panic = "" =>
        \A i \in DOMAIN last_eval.edges :
            ConsumesStaged(last_eval.edges[i]) => EntryCleared(last_eval.edges[i])

\* The same for the edges that met into an existing entry only.
C19_StagedConsumedMet ==
    last_eval.panic = "" =>
        \A i \in DOMAIN last_eval.edges :
            (ConsumesStaged(last_eval.edges[i]) /\ ~last_eval.edges[i].created)
                => EntryCleared(last_eval.edges[i])

\* The same for the edges that created the block only.
C19_StagedConsumedCreated ==
    last_eval.panic = "" =>
        \A i \in DOMAIN last_eval.edges :
            (ConsumesStaged(last_eval.edges[i]) /\ last_eval.edges[i].created)
                => EntryCleared(last_eval.edges[i])

(***************************************************************************)
(* Top.                                                                    *)
(***************************************************************************)
NotTop(a) == a.kind \in {"Runtime", "Concrete"}

\* No abstract value the evaluator holds is Top: the ssa values of every
\* context and the globals of every block-entry state.
StoredNotTop ==
    /\ \A key \in DOMAIN ssa : NotTop(ssa[key].abs)
    /\ \A key \in DOMAIN block_entry :
           \A g \in DOMAIN block_entry[key].globals : NotTop(block_entry[key].globals[g])

\* No operator of the latest evaluation read, returned or defined Top, and no
\* edge passed it.
EvaluatedNotTop ==
    /\ \A i \in DOMAIN last_eval.log :
           /\ \A j \in DOMAIN last_eval.log[i].args : NotTop(last_eval.log[i].args[j])
           /\ NotTop(last_eval.log[i].result)
           /\ NotTop(last_eval.log[i].stored)
    /\ \A i \in DOMAIN last_eval.edges :
           \A j \in DOMAIN last_eval.edges[i].args : NotTop(last_eval.edges[i].args[j])

\* C20: the directive's arguments being Runtime or Concrete, no stored
\* abstract value and no result of abstract_eval is Top, and the
\* unreachable!() arm for a Top result is never reached.
C20_NoTop ==
    (\A i \in DOMAIN directive : NotTop(directive[i])) =>
        /\ StoredNotTop
        /\ EvaluatedNotTop
        /\ last_eval.panic # "unreachable: Top result"

\* A block read a global that its entry state does not hold, a path that sets
\* it having been met with one that does not, with Runtime and Concrete values
\* stored.
C20_Witness ==
    /\ last_eval.panic = ""
    /\ Cardinality(DOMAIN block_map) >= 2
    /\ \E key \in DOMAIN ssa : ssa[key].abs.kind = "Runtime"
    /\ \E key \in DOMAIN ssa : ssa[key].abs.kind = "Concrete"
    /\ \E i \in DOMAIN last_eval.log :
           /\ last_eval.log[i].op.op = "GlobalGet"
           /\ ~Has(block_entry[<<last_eval.context, last_eval.orig_block>>].globals,
                   last_eval.log[i].op.imm)
           /\ last_eval.log[i].result = Runtime(DefaultTags)

(***************************************************************************)
(* use_value.                                                              *)
(***************************************************************************)
\* The values a terminator reads.
TermUses(term) ==
    CASE term.kind = "CondBr" ->
            {term.cond} \cup Range(term.if_true.args) \cup Range(term.if_false.args)
      [] term.kind = "Br" -> Range(term.target.args)
      [] term.kind = "Select" ->
            {term.value} \cup Range(term.default.args)
                \cup UNION {Range(term.targets[i].args) : i \in DOMAIN term.targets}
      [] term.kind = "Return" -> Range(term.values)
      [] OTHER -> {}

\* Some terminator of the body reads an Alias value.
TermUsesAlias(body) ==
    \E b \in DOMAIN body.blocks : \E v \in TermUses(body.blocks[b].terminator) :
        body.values[v].kind = "Alias"

UseValueFinds ==
    /\ last_eval.panic # "use_value: walked above the root"
    /\ \A key \in DOMAIN block_deps : \A d \in block_deps[key] :
           \E c \in Ancestors(d[1]) \cup {d[1]} : c = key[1]

\* C21: the bodies being well-formed SSA (each definition dominates its uses),
\* no use_value call walks above the root: each finds the value in the using
\* context or in an ancestor, so the assert_ne!(context, root) never fails,
\* also in a block reached by an edge that took the pop arm of target_block.
C21_UseValueFinds == UseValueFinds

\* The same for the bodies in which no terminator reads an Alias value.
C21_UseValueFindsResolved == ~TermUsesAlias(generic) => UseValueFinds

(***************************************************************************)
(* The dependency re-queue of def_value.                                   *)
(***************************************************************************)
\* The original block b reads v whenever it is evaluated: as an operand of one
\* of its instructions, or as the value its terminator branches on.
ReadsValue(b, v) ==
    \/ \E i \in DOMAIN generic.blocks[b].insts :
          \/ /\ generic.values[generic.blocks[b].insts[i]].kind = "Operator"
             /\ \E j \in DOMAIN generic.values[generic.blocks[b].insts[i]].args :
                    resolve_alias(generic, generic.values[generic.blocks[b].insts[i]].args[j]) = v
          \/ /\ generic.values[generic.blocks[b].insts[i]].kind = "PickOutput"
             /\ generic.values[generic.blocks[b].insts[i]].val = v
    \/ /\ generic.blocks[b].terminator.kind = "CondBr"
       /\ generic.blocks[b].terminator.cond = v
    \/ /\ generic.blocks[b].terminator.kind = "Select"
       /\ generic.blocks[b].terminator.value = v

\* The (context, block) pairs that, before this step, read v through a
\* use_value call that stopped at context c.
ReadersIn(c, v) ==
    IF Has(ssa, <<c, v>>) /\ Has(block_deps, <<c, value_blocks(generic, v)>>)
    THEN {r \in block_deps[<<c, value_blocks(generic, v)>>] :
            /\ ReadsValue(r[2], v)
            /\ lookup_context([ssa |-> ssa, contexts |-> contexts], r[1], v) = c}
    ELSE {}

Lowered(d) == IsSome(d.before) /\ d.after # Unwrap(d.before)

IsBlockParam(v) == generic.values[v].kind = "BlockParam"

\* Every def_value call of the step that lowered a value of the given kind
\* left the earlier readers that have a specialized block on the worklist.
ReadersQueued(params) ==
    (pc = "evaluate" /\ queue # <<>> /\ last_eval'.panic = "") =>
        \A i \in DOMAIN last_eval'.defs :
            (Lowered(last_eval'.defs[i]) /\ IsBlockParam(last_eval'.defs[i].value) = params) =>
                \A r \in ReadersIn(last_eval'.defs[i].context, last_eval'.defs[i].value) :
                    Has(block_map, r) => <<r[2], r[1]>> \in queue_set'

\* C22: whenever def_value lowers the abstract value of v in context c, every
\* (context, block) that read v before through a use_value call resolved in c
\* and has a block_map entry is on the worklist afterwards, for values
\* defined by instructions and for block parameters defined on an edge.  (A
\* def_value that first sets v in c has no earlier reader resolved in c.)
C22_ReadersRequeued == [][ReadersQueued(TRUE) /\ ReadersQueued(FALSE)]_vars

\* The same for the values defined by instructions only.
C22_InstructionReadersRequeued == [][ReadersQueued(FALSE)]_vars

(***************************************************************************)
(* The fixpoint.                                                           *)
(***************************************************************************)
AbsOf(m) == [key \in DOMAIN m |-> m[key].abs]

\* s, the evaluator after one more evaluate_block, holds what the evaluator
\* held before it: the same abstract values, entry states and blocks, and
\* nothing pushed.
NothingChanged(s) ==
    /\ s.panic = ""
    /\ AbsOf(s.ssa) = AbsOf(ssa)
    /\ s.block_entry = block_entry
    /\ s.block_map = block_map
    /\ Len(s.blocks) = Len(func.blocks)
    /\ s.pushed = <<>>
    /\ s.queue_set = {}

Evaluable == {<<key[2], key[1], block_map[key]>> : key \in DOMAIN block_map}
                 \cup {<<Entry, Root, Entry>>}

\* C23: when the worklist is empty, evaluating once more any (original block,
\* context) of block_map, or the entry block under the root context, from its
\* stored entry state changes no stored abstract value and no block-entry
\* state, creates no block and enqueues nothing.
C23_Fixpoint ==
    pc = "done" =>
        \A item \in Evaluable :
            NothingChanged(evaluate_block(Threaded(item), item[1], item[2], item[3]))

(***************************************************************************)
(* Order independence.                                                     *)
(***************************************************************************)
\* The abstract state of the evaluator t is the one the run has reached.
SameAbstractState(t) ==
    /\ AbsOf(t.ssa) = AbsOf(ssa)
    /\ t.block_entry = block_entry
    /\ DOMAIN t.block_map = DOMAIN block_map

\* C24: the abstract state at termination (the abstract value of every
\* (context, value), the entry state of every (context, block), the keys of
\* block_map) is the same whatever order the items pushed by one def_value
\* call are processed in: it is that of the run that takes every such batch
\* in one fixed order.
C24_OrderIndependent ==
    pc = "done" =>
        SameAbstractState(evaluate(Started(init_args(generic, directive)),
                                   <<<<Entry, Root, Entry>>>>))

(***************************************************************************)
(* The worklist.                                                           *)
(***************************************************************************)
\* C25: between worklist steps a pair (original block, context) is in
\* queue_set if and only if the queue holds an item for it, and the queue
\* holds no two items for the same pair.
C25_QueueSet ==
    /\ queue_set = {<<queue[i][1], queue[i][2]>> : i \in DOMAIN queue}
    /\ \A i, j \in DOMAIN queue :
           (queue[i][1] = queue[j][1] /\ queue[i][2] = queue[j][2]) => i = j

\* The latest step pushed a block that existed before it, next to another
\* item, while def_value found a reader that was queued already.
C25_Witness ==
    /\ Len(queue) >= 2
    /\ \E item \in Pushed : item[3] <= last_eval.nblocks
    /\ \E key \in DOMAIN block_deps : \E d \in block_deps[key] :
           /\ <<d[2], d[1]>> \in queue_set
           /\ <<d[2], d[1], block_map[d]>> \notin Pushed
           /\ \E i \in DOMAIN last_eval.defs :
                  /\ last_eval.defs[i].context = key[1]
                  /\ Lowered(last_eval.defs[i])

(***************************************************************************)
(* Parallel moves on an edge.                                              *)
(***************************************************************************)
\* The first edge the step evaluated, when no later edge of the step leads to
\* the same block in the same context.
FirstEdgeAlone(ev) ==
    /\ ev.new_block # 0 /\ ev.panic = "" /\ ev.edges # <<>>
    /\ \A j \in 2..Len(ev.edges) :
           <<ev.edges[j].to, ev.edges[j].context>> # <<ev.edges[1].to, ev.edges[1].context>>

\* The abstract value use_value finds for v from `context` in the current state.
AbsBefore(context, v) ==
    ssa[<<lookup_context([ssa |-> ssa, contexts |-> contexts], context, v), v>>].abs

\* The i-th argument of edge e is a block parameter with a value before the step.
ParamArg(e, i) ==
    /\ IsBlockParam(e.uses[i])
    /\ lookup_context([ssa |-> ssa, contexts |-> contexts], e.from_context, e.uses[i])
            # RootParent

\* The i-th parameter of the target of e holds, after the step, the meet of what
\* it held before with what the i-th argument held before the step.
MetWithBefore(e, p, i) ==
    ssa'[<<e.context, p>>].abs =
        IF Has(ssa, <<e.context, p>>)
        THEN meet(ssa[<<e.context, p>>].abs, AbsBefore(e.from_context, e.uses[i]))
        ELSE AbsBefore(e.from_context, e.uses[i])

\* C26: an edge is a parallel move: each parameter of the target is met with the
\* abstract value its argument had before any parameter of the edge was defined,
\* also when the argument is itself a parameter of the target in the same context.
C26_ParallelMove ==
    [][FirstEdgeAlone(last_eval') =>
          \A i \in DOMAIN last_eval'.edges[1].uses :
              ParamArg(last_eval'.edges[1], i) =>
                  MetWithBefore(last_eval'.edges[1],
                                generic.blocks[last_eval'.edges[1].to].params[i], i)]_vars

\* A back edge was evaluated one of whose arguments is a parameter of its target
\* in the context of the edge, the parameter holding a constant the edge lowers.
C26_Witness ==
    /\ last_eval.new_block # 0 /\ last_eval.panic = "" /\ last_eval.edges # <<>>
    /\ last_eval.edges[1].to = last_eval.orig_block
    /\ last_eval.edges[1].context = last_eval.context
    /\ \E i \in DOMAIN last_eval.edges[1].uses :
          /\ last_eval.edges[1].uses[i] \in
                Range(generic.blocks[last_eval.orig_block].params)
          /\ last_eval.edges[1].uses[i] # generic.blocks[last_eval.orig_block].params[i]
          /\ last_eval.edges[1].args[i].kind = "Concrete"
          /\ \E d \in Range(last_eval.defs) :
                /\ d.context = last_eval.context /\ d.value = last_eval.edges[1].uses[i]
                /\ d.before = Some(last_eval.edges[1].args[i]) /\ d.after.kind = "Runtime"

(***************************************************************************)
(* loop_pc32_update.                                                       *)
(***************************************************************************)
IsPcUpdate(l) == l.op.op = "Call" /\ Some(l.op.imm) = intrinsics.loop_pc32_update

\* The step evaluated a block with exactly one loop_pc32_update call and at
\* least one edge, so that the first edge carries the staged pc the call left.
OnePcUpdate(ev) ==
    /\ ev.new_block # 0 /\ ev.panic = "" /\ ev.edges # <<>>
    /\ Cardinality({i \in DOMAIN ev.log : IsPcUpdate(ev.log[i])}) = 1

ThePcUpdate(ev) == ev.log[CHOOSE i \in DOMAIN ev.log : IsPcUpdate(ev.log[i])]

\* What the call leaves staged: Some(x) when x is a concrete u32 and nothing (or
\* the same pc) was staged, Conflict when another pc was, and what was staged
\* before when x is no concrete u32.
StagedAfter(before, x) ==
    IF IsSome(is_const_u32(x)) THEN staged_meet(before, StagedSome(is_const_u32(x)))
    ELSE before

\* The residual value of the call is its argument: an alias, not a call.
ResidualIsArgument(ev) ==
    /\ ThePcUpdate(ev).def.kind = "Alias"
    /\ ThePcUpdate(ev).stored = ThePcUpdate(ev).args[1]

\* C27: loop_pc32_update(x) stages Some(x) when x is a concrete u32 and nothing
\* is staged, makes the staged pc Conflict when x is a concrete u32 and another
\* pc is staged, and leaves the staged pc alone when x is no concrete u32; in
\* each case the residual value is the argument x and no call is emitted.
C27_PcUpdate ==
    [][OnePcUpdate(last_eval') =>
          /\ last_eval'.edges[1].staged_pc =
                StagedAfter(block_entry[<<last_eval'.context, last_eval'.orig_block>>].staged_pc,
                            ThePcUpdate(last_eval').args[1])
          /\ ResidualIsArgument(last_eval')]_vars

\* The case of C27 in which x is a concrete u32 and nothing is staged, and the
\* residual value in every case.
C27_PcUpdateFresh ==
    [][OnePcUpdate(last_eval') =>
          /\ ((/\ IsSome(is_const_u32(ThePcUpdate(last_eval').args[1]))
               /\ block_entry[<<last_eval'.context, last_eval'.orig_block>>].staged_pc
                     = StagedNone)
                => last_eval'.edges[1].staged_pc =
                     StagedSome(is_const_u32(ThePcUpdate(last_eval').args[1])))
          /\ ResidualIsArgument(last_eval')]_vars

\* The case in which another pc is staged.
C27_PcUpdateStaged ==
    [][OnePcUpdate(last_eval') =>
          ((/\ IsSome(is_const_u32(ThePcUpdate(last_eval').args[1]))
            /\ block_entry[<<last_eval'.context, last_eval'.orig_block>>].staged_pc.kind = "Some"
            /\ block_entry[<<last_eval'.context, last_eval'.orig_block>>].staged_pc
                  # StagedSome(is_const_u32(ThePcUpdate(last_eval').args[1])))
             => last_eval'.edges[1].staged_pc = StagedConflict)]_vars

\* The case in which x is no concrete u32.
C27_PcUpdateRuntime ==
    [][OnePcUpdate(last_eval') =>
          (~IsSome(is_const_u32(ThePcUpdate(last_eval').args[1]))
             => last_eval'.edges[1].staged_pc =
                  block_entry[<<last_eval'.context, last_eval'.orig_block>>].staged_pc)]_vars

(***************************************************************************)
(* The push phase of target_block.                                         *)
(***************************************************************************)
\* The edge enters a marked loop from outside.
Enters(e) == e.to \in compute_header_blocks(generic) /\ ~dominates(generic, e.to, e.from)

\* The context with the given parent and element (contexts are interned).
ContextOf(par, elem) ==
    CHOOSE c \in DOMAIN contexts' : contexts'[c] = [parent |-> par, elem |-> elem]

\* The context the pop phase chooses for edge e: the root stays, a loop whose
\* header does not dominate the target is left for the parent, a back-edge with a
\* staged pc goes to the sibling of that pc, everything else stays.
PopChosen(e) ==
    IF contexts'[e.from_context].elem.header = Entry THEN e.from_context
    ELSE IF ~dominates(generic, contexts'[e.from_context].elem.header, e.to)
    THEN contexts'[e.from_context].parent
    ELSE IF contexts'[e.from_context].elem.header = e.to /\ e.staged_pc.kind = "Some"
    THEN ContextOf(contexts'[e.from_context].parent, ContextElem(e.staged_pc.pc, e.to))
    ELSE e.from_context

\* The context the pop phase hands to the push phase in its PointState.
PopKept(e) ==
    IF contexts'[e.from_context].elem.header = Entry THEN e.from_context
    ELSE IF ~dominates(generic, contexts'[e.from_context].elem.header, e.to)
    THEN e.from_context
    ELSE IF contexts'[e.from_context].elem.header = e.to /\ e.staged_pc.kind = "Some"
    THEN ContextOf(contexts'[e.from_context].parent, ContextElem(e.staged_pc.pc, e.to))
    ELSE e.from_context

\* Edge e ended in the child (None, target) of context c.
PushedOnto(e, c) == contexts'[e.context] = [parent |-> c, elem |-> ContextElem(None, e.to)]

\* C28: an edge pushes the child context (None, target) onto the context the pop
\* phase chose if and only if the target is a header block that does not
\* dominate the source block; a back-edge to a header and an edge to a block
\* that is no header push nothing.
C28_PushPhase ==
    [][last_eval'.new_block # 0 /\ last_eval'.panic = "" =>
          \A i \in DOMAIN last_eval'.edges :
              Enters(last_eval'.edges[i]) <=>
                  PushedOnto(last_eval'.edges[i], PopChosen(last_eval'.edges[i]))]_vars

\* The same, the child being pushed onto the context of the PointState the pop
\* phase ended with; without a push the edge ends in that context.
C28_PushPhaseKept ==
    [][last_eval'.new_block # 0 /\ last_eval'.panic = "" =>
          \A i \in DOMAIN last_eval'.edges :
              IF Enters(last_eval'.edges[i])
              THEN PushedOnto(last_eval'.edges[i], PopKept(last_eval'.edges[i]))
              ELSE last_eval'.edges[i].context = PopKept(last_eval'.edges[i])]_vars

(***************************************************************************)
(* Folded comparisons.                                                     *)
(***************************************************************************)
\* Log entry l is an integer comparison (or an eqz) of type ty on concrete
\* operands of that type.
ConcreteComparison(l, ty) ==
    /\ l.op.ty = ty
    /\ \/ l.op.op \in Comparisons /\ Len(l.args) = 2
       \/ l.op.op = "Eqz" /\ Len(l.args) = 1
    /\ \A i \in DOMAIN l.args : l.args[i].kind = "Concrete" /\ l.args[i].ty = ty

\* The instruction was replaced by a constant 1 or 0 and its stored abstract
\* value is concrete.
FoldedToBool(l) ==
    /\ l.def.kind = "Operator" /\ l.def.op.op = "Const" /\ l.def.args = <<>>
    /\ l.def.op.imm \in {0, 1}
    /\ l.stored.kind = "Concrete" /\ l.stored.bits = l.def.op.imm

\* C29: every integer comparison on two concrete operands, 64-bit as well as
\* 32-bit, and every eqz on a concrete operand, is folded: the specialized block
\* holds a constant 1 or 0 in its place and the stored abstract value is
\* concrete.
C29_ComparisonsFolded ==
    \A i \in DOMAIN last_eval.log :
        ConcreteComparison(last_eval.log[i], "I32") \/ ConcreteComparison(last_eval.log[i], "I64")
            => FoldedToBool(last_eval.log[i])

\* The same for the 32-bit comparisons and i32.eqz alone.
C29_ComparisonsFolded32 ==
    \A i \in DOMAIN last_eval.log :
        ConcreteComparison(last_eval.log[i], "I32") => FoldedToBool(last_eval.log[i])

\* No 64-bit comparison or i64.eqz on concrete operands is folded.
C29_NoneFolded64 ==
    \A i \in DOMAIN last_eval.log :
        ConcreteComparison(last_eval.log[i], "I64") =>
            /\ last_eval.log[i].def.op = last_eval.log[i].op
            /\ last_eval.log[i].stored.kind = "Runtime"

(***************************************************************************)
(* Folded shifts and rotations.                                            *)
(***************************************************************************)
\* Log entry l is a shift or rotation on two concrete operands of its type.
ConcreteShift(l) ==
    /\ l.op.op \in Shifts /\ l.op.ty \in {"I32", "I64"} /\ Len(l.args) = 2
    /\ \A i \in DOMAIN l.args : l.args[i].kind = "Concrete" /\ l.args[i].ty = l.op.ty

\* The count masked to the low bits that address a bit of the word.
MaskedCount(w, k) == k % w

\* The wasm result of shifting or rotating the w-bit pattern k by m < w bits.
TrueShift(op, w, k, m) ==
    CASE op = "Shl" -> (k % (2 ^ (w - m))) * (2 ^ m)
      [] op = "ShrU" -> k \div (2 ^ m)
      [] op = "ShrS" -> IF k >= 2 ^ (w - 1)
                        THEN (k \div (2 ^ m)) + ((2 ^ w) - (2 ^ (w - m)))
                        ELSE k \div (2 ^ m)
      [] op = "Rotl" -> ((k % (2 ^ (w - m))) * (2 ^ m)) + (k \div (2 ^ (w - m)))
      [] op = "Rotr" -> (k \div (2 ^ m)) + ((k % (2 ^ m)) * (2 ^ (w - m)))

\* C30: on concrete operands a folded shift shifts by the count masked to 5
\* (i32) or 6 (i64) bits, and a folded rotl or rotr is the true rotation of the
\* word by the masked count, also when the masked count is 0 and the
\* complementary shift amount is the width of the word.
C30_ShiftsMasked ==
    \A i \in DOMAIN last_eval.log :
        ConcreteShift(last_eval.log[i]) =>
            /\ last_eval.log[i].result.kind = "Concrete"
            /\ last_eval.log[i].result.bits =
                  TrueShift(last_eval.log[i].op.op, Width(last_eval.log[i].op.ty),
                            last_eval.log[i].args[1].bits,
                            MaskedCount(Width(last_eval.log[i].op.ty),
                                        last_eval.log[i].args[2].bits))
            /\ last_eval.log[i].def.op.op = "Const"
            /\ last_eval.log[i].def.op.imm = last_eval.log[i].result.bits

\* A rotation of a word that is neither 0 nor all ones was folded whose count is
\* not 0 but is masked to 0.
C30_Witness ==
    \E i \in DOMAIN last_eval.log :
        /\ ConcreteShift(last_eval.log[i])
        /\ last_eval.log[i].op.op \in {"Rotl", "Rotr"}
        /\ last_eval.log[i].args[1].bits \notin {0, MaxU(last_eval.log[i].op.ty)}
        /\ last_eval.log[i].args[2].bits # 0
        /\ MaskedCount(Width(last_eval.log[i].op.ty), last_eval.log[i].args[2].bits) = 0
        /\ last_eval.log[i].result.bits = last_eval.log[i].args[1].bits

(***************************************************************************)
(* Re-evaluation of a specialized block.                                   *)
(***************************************************************************)
NotAlias(v) == generic.values[v].kind # "Alias"

\* The step is an evaluation of the head of the worklist that did not panic.
EvaluatesHead == pc = "evaluate" /\ queue # <<>> /\ last_eval'.panic = ""

\* The instructions of an original block that emit a value, in source order.
Emitters(b) == SelectSeq(generic.blocks[b].insts, NotAlias)

\* The instruction list of the block the step evaluated is what this step
\* emitted: one value created by the step for each emitting instruction of the
\* original block, in source order.
HoldsThisEmission(ev) ==
    /\ Len(func'.blocks[ev.new_block].insts) = Len(Emitters(ev.orig_block))
    /\ \A j \in DOMAIN func'.blocks[ev.new_block].insts :
          /\ func'.blocks[ev.new_block].insts[j] > Len(func.values)
          /\ func'.blocks[ev.new_block].insts[j] =
                value_map'[<<ev.context, Emitters(ev.orig_block)[j]>>]
          /\ \A k \in DOMAIN func'.blocks[ev.new_block].insts :
                j < k => func'.blocks[ev.new_block].insts[j]
                            < func'.blocks[ev.new_block].insts[k]

\* The terminator of the block the step evaluated is the one this step set: it
\* leads to the blocks of the edges the step evaluated, in their order.
HoldsThisTerminator(ev) ==
    /\ func'.blocks[ev.new_block].terminator.kind # "None"
    /\ (func'.blocks[ev.new_block].terminator.kind = "Return")
          = (generic.blocks[ev.orig_block].terminator.kind = "Return")
    /\ [j \in DOMAIN Targets(func'.blocks[ev.new_block].terminator) |->
           Targets(func'.blocks[ev.new_block].terminator)[j].block]
         = [j \in DOMAIN ev.edges |-> ev.edges[j].block]

\* C31: after every evaluation of an (original block, context), the first or a
\* later one, the instruction list of the specialized block holds exactly the
\* values the most recent evaluation emitted, one per non-Alias instruction of
\* the original block in source order, and its terminator is the one the most
\* recent evaluation set.
C31_Overwrites ==
    [][EvaluatesHead =>
          HoldsThisEmission(last_eval') /\ HoldsThisTerminator(last_eval')]_vars

\* A block that emits instructions was evaluated again and holds as many
\* instructions as after its first evaluation, none of them an earlier one.
C31_Witness ==
    /\ last_eval.new_block # 0 /\ last_eval.panic = ""
    /\ Len(Emitters(last_eval.orig_block)) >= 2
    /\ Len(func.blocks[last_eval.new_block].insts) = Len(Emitters(last_eval.orig_block))
    /\ \E v \in DOMAIN func.values :
          /\ v < func.blocks[last_eval.new_block].insts[1]
          /\ v \notin Range(func.blocks[last_eval.new_block].insts)
          /\ func.values[v] = func.values[func.blocks[last_eval.new_block].insts[1]]
          /\ func.values[v].kind = "Operator" /\ func.values[v].op.op # "Const"

(***************************************************************************)
(* Operands of the specialized body.                                       *)
(***************************************************************************)
\* The values a value definition reads.
ValueUses(d) ==
    CASE d.kind = "Operator" -> Range(d.args)
      [] d.kind \in {"PickOutput", "Alias"} -> {d.val}
      [] OTHER -> {}

\* The values that are a parameter of a specialized block or in the instruction
\* list of one.
Placed ==
    UNION {Range(func.blocks[b].params) \cup Range(func.blocks[b].insts) :
              b \in DOMAIN func.blocks}

\* The operands of the instructions and of the terminator of specialized block b.
OperandsOf(b) ==
    TermUses(func.blocks[b].terminator)
        \cup UNION {ValueUses(func.values[v]) : v \in Range(func.blocks[b].insts)}

\* C32: at termination every operand of every instruction and terminator of a
\* specialized block is a parameter of a specialized block or is in the
\* instruction list of one: nothing refers to a value that an earlier
\* evaluation of a block emitted and a later one replaced.
C32_OperandsPlaced ==
    pc = "done" => \A b \in DOMAIN func.blocks : OperandsOf(b) \subseteq Placed


(***************************************************************************)
(* The specialized value of a block parameter.                             *)
(***************************************************************************)
\* C33: when a block T that has a specialized block under context c was
\* evaluated under c, each parameter of T that T reads resolves, through
\* use_value, to the parameter that create_block made for block_map[(c, T)],
\* whichever edges defined it.
C33_ParamIsCreated ==
    (last_eval.new_block # 0 /\ last_eval.panic = ""
        /\ Has(block_map, <<last_eval.context, last_eval.orig_block>>)) =>
    \A p \in Range(generic.blocks[last_eval.orig_block].params) :
        (ReadsValue(last_eval.orig_block, p) /\ Has(ssa, <<last_eval.context, p>>)) =>
            /\ ssa[<<last_eval.context, p>>].val = value_map[<<last_eval.context, p>>]
            /\ ssa[<<last_eval.context, p>>].val
                  \in Range(func.blocks[last_eval.new_block].params)

(***************************************************************************)
(* Created blocks are evaluated.                                           *)
(***************************************************************************)
\* Every block the step created is on the worklist after the step.
CreatedQueued ==
    \A k \in DOMAIN block_map' \ DOMAIN block_map :
        /\ <<k[2], k[1]>> \in queue_set'
        /\ \E i \in DOMAIN queue' : queue'[i] = <<k[2], k[1], block_map'[k]>>

\* Every block of block_map has a terminator.
AllTerminated == \A k \in DOMAIN block_map : func.blocks[block_map[k]].terminator.kind # "None"

\* C34: a specialized block is put on the worklist by the step that creates it,
\* and it has been evaluated when the worklist is empty: at termination every
\* block of block_map has the terminator evaluate_term set.
C34_CreatedEvaluated ==
    [][CreatedQueued /\ (pc' = "done" => AllTerminated')]_vars

\* A run that created at least three blocks has terminated.
C34_Witness ==
    /\ pc = "done"
    /\ Cardinality(DOMAIN block_map) >= 3
    /\ AllTerminated

(***************************************************************************)
(* Contexts and dominance.                                                 *)
(***************************************************************************)
\* C35: every block specialized under a context other than the root is
\* dominated by (or is) the header block of the leaf element of that context,
\* also after an edge that leaves two nested loops at once.
C35_HeaderDominates ==
    \A k \in DOMAIN block_map :
        k[1] # Root => dominates(generic, contexts[k[1]].elem.header, k[2])

====
